---------------------------- MODULE Spec2Model ----------------------------
(***************************************************************************)
(* Model of the strobe search engine (src/src): the packed write-ahead log *)
(* (storage.rs), the ingest parsers (ingest.rs), the segment builder and   *)
(* the index view (index.rs), the signature projection (qgram.rs) and the  *)
(* writer task, boot replay and request handlers (main.rs).                *)
(*                                                                         *)
(* Bytes are integers 0..255, byte strings are sequences of bytes.  A u64  *)
(* is the set of its set bit positions (0 = least significant), because    *)
(* TLC's integers are 32 bits wide; multiplication goes through the eight  *)
(* little-endian bytes of the word.  A 256-bit signature [u64; 4] is the   *)
(* set of its set bit positions (lane << 6) | bit, 0..255.  A u32 (a       *)
(* document id, the id counter) is the set of its set bit positions too:   *)
(* u32::MAX does not fit TLC's integers.                                   *)
(***************************************************************************)
EXTENDS Integers, Sequences, FiniteSets, TLC

(***************************************************************************)
(* Machine integers                                                        *)
(***************************************************************************)
U8_MOD  == 256
U16_MOD == 65536

RECURSIVE Pow2(_)
Pow2(n) == IF n = 0 THEN 1 ELSE 2 * Pow2(n - 1)

\* u64::from_le_bytes: the set bits of the word whose bytes are b[1..8]
U64FromLeBytes(b) ==
    { p \in 0..63 : (b[(p \div 8) + 1] \div Pow2(p % 8)) % 2 = 1 }

RECURSIVE BitsValue(_, _, _)
\* value of the bits lo..hi of word w, bit lo weighing 1
BitsValue(w, lo, hi) ==
    IF lo > hi THEN 0
    ELSE (IF lo \in w THEN 1 ELSE 0) + 2 * BitsValue(w, lo + 1, hi)

\* u64::to_le_bytes
U64ToLeBytes(w) == [i \in 1..8 |-> BitsValue(w, 8 * (i - 1), 8 * (i - 1) + 7)]

U64Xor(a, b) == (a \ b) \cup (b \ a)
U64Shr(a, n) == { p - n : p \in { x \in a : x >= n } }
U64Shl(a, n) == { p + n : p \in { x \in a : x + n <= 63 } }
U64RotL(a, n) == { (p + n) % 64 : p \in a }

RECURSIVE MulColumn(_, _, _, _)
\* sum of a[i] * c[k + 1 - i] for i in 1..k (1-based bytes), column k
MulColumn(a, c, k, i) ==
    IF i > k THEN 0 ELSE a[i] * c[k + 1 - i] + MulColumn(a, c, k, i + 1)

RECURSIVE MulBytes(_, _, _, _)
\* schoolbook product of two 8-byte words, truncated to 8 bytes
MulBytes(a, c, k, carry) ==
    IF k > 8 THEN << >>
    ELSE LET s == MulColumn(a, c, k, 1) + carry
         IN  << s % U8_MOD >> \o MulBytes(a, c, k + 1, s \div U8_MOD)

\* u64::wrapping_mul
U64WrappingMul(a, c) ==
    U64FromLeBytes(MulBytes(U64ToLeBytes(a), U64ToLeBytes(c), 1, 0))

\* the element of a one-element set: Only({ F(x) : x \in {e} }) is F(e) with
\* e evaluated once
Only(S) == CHOOSE x \in S : TRUE

RECURSIVE Iterate(_, _, _)
\* a loop body Step run n times from state st (halving n keeps the nesting
\* of the evaluation logarithmic in n)
Iterate(Step(_), st, n) ==
    IF n = 0 THEN st
    ELSE IF n = 1 THEN Step(st)
    ELSE Only({ Iterate(Step, mid, n - (n \div 2)) : mid \in { Iterate(Step, st, n \div 2) } })

(***************************************************************************)
(* u32 words (document ids)                                                *)
(***************************************************************************)
\* u32::MAX, the wire sentinel "server assigns the id"
U32_MAX == 0..31

\* u32::from_le_bytes
U32FromLeBytes(b) ==
    { p \in 0..31 : (b[(p \div 8) + 1] \div Pow2(p % 8)) % 2 = 1 }

\* u32::to_le_bytes
U32ToLeBytes(w) == [i \in 1..4 |-> BitsValue(w, 8 * (i - 1), 8 * (i - 1) + 7)]

\* u32::wrapping_add(1): the trailing ones become zeros, the first zero a one
U32WrappingInc(w) ==
    IF w = U32_MAX THEN {}
    ELSE LET z == CHOOSE p \in 0..31 : p \notin w /\ \A q \in 0..(p - 1) : q \in w
         IN  (w \ 0..(z - 1)) \cup {z}

\* the u32 of a small natural number
U32Of(n) == { p \in 0..31 : p < 30 /\ (n \div Pow2(p)) % 2 = 1 }

\* u16::to_le_bytes(n as u16): the cast keeps the low 16 bits of the length
U16CastToLeBytes(n) == << (n % U16_MOD) % U8_MOD, (n % U16_MOD) \div U8_MOD >>

\* u16::from_le_bytes([lo, hi]) as usize
U16FromLeBytes(lo, hi) == lo + U8_MOD * hi

(***************************************************************************)
(* qgram.rs: the n-gram projection                                         *)
(***************************************************************************)
to_lower_ascii(b) == IF 65 <= b /\ b <= 90 THEN b + 32 ELSE b

is_alnum(b) ==
    \/ (48 <= b /\ b <= 57)
    \/ (97 <= b /\ b <= 122)
    \/ (65 <= b /\ b <= 90)

\* qgram::normalize and index::normalize_ascii_inplace agree on ASCII input:
\* lowercase, then every byte that is neither alphanumeric nor a space
\* becomes a space
normalize(s) ==
    [i \in 1..Len(s) |->
        LET c == to_lower_ascii(s[i])
        IN  IF is_alnum(c) \/ c = 32 THEN c ELSE 32]

K0     == U64FromLeBytes(<<21, 124, 74, 127, 185, 121, 55, 158>>)
MIX_C1 == U64FromLeBytes(<<205, 140, 85, 237, 215, 175, 81, 255>>)
MIX_C2 == U64FromLeBytes(<<83, 236, 133, 26, 254, 185, 206, 196>>)

mix64_from3(b0, b1, b2) ==
    LET v  == U64FromLeBytes(<<b0, b1, b2, 0, 0, 0, 0, 0>>)
        a0 == U64Xor(K0, v)
        a1 == U64Xor(a0, U64Shr(a0, 33))
        a2 == U64WrappingMul(a1, MIX_C1)
        a3 == U64Xor(a2, U64Shr(a2, 33))
        a4 == U64WrappingMul(a3, MIX_C2)
    IN  U64Xor(a4, U64Shr(a4, 33))

\* x ^= x << 13; x ^= x >> 7; x ^= x << 17
xorshift(x) ==
    LET x1 == U64Xor(x, U64Shl(x, 13))
        x2 == U64Xor(x1, U64Shr(x1, 7))
    IN  U64Xor(x2, U64Shl(x2, 17))

RECURSIVE project4(_, _)
\* the bit positions (x & 0xFFF) of n rounds starting from x
project4(x, n) ==
    IF n = 0 THEN {}
    ELSE {BitsValue(x, 0, 11)} \cup project4(xorshift(x), n - 1)

\* the set bits (0..4095) of the 4096-bit signature of a text.  The loops
\* OR the four bits of every gram into sig, so equal grams count once.
sig4096_from_text(s) ==
    LET b == normalize(s)
        t3 == IF Len(b) >= 3
              THEN { << b[i], b[i + 1], b[i + 2] >> : i \in 1..(Len(b) - 2) }
              ELSE {}
        t2 == IF Len(b) >= 2
              THEN { << b[i], b[i + 1], 0 >> : i \in 1..(Len(b) - 1) }
              ELSE {}
        t1 == IF Len(b) = 1 THEN { << b[1], 0, 0 >> } ELSE {}
    IN  UNION { project4(mix64_from3(g[1], g[2], g[3]), 4) : g \in t3 \cup t2 \cup t1 }

\* IndexBuilder::add keeps lanes 0..3: the bits below 256
sig256(s) == { p \in sig4096_from_text(s) : p < 256 }

\* the texts of the search scenarios
TextAlpha      == << 97, 108, 112, 104, 97 >>               \* "alpha"
TextBeta       == << 98, 101, 116, 97 >>                     \* "beta"
TextGamma      == << 103, 97, 109, 109, 97 >>                \* "gamma"
TextAlphaBeta  == TextAlpha \o << 32 >> \o TextBeta          \* "alpha beta"
TextAlphaGamma == TextAlpha \o << 32 >> \o TextGamma         \* "alpha gamma"
TextAlphaBetaGamma == TextAlphaBeta \o << 32 >> \o TextGamma   \* "alpha beta gamma"
TextB          == << 98 >>                                   \* "b"
TextAlphaB     == TextAlpha \o << 32 >> \o TextB             \* "alpha b"
SceneTokens    == {TextAlpha, TextBeta, TextGamma, TextB}

\* the texts of the model's inputs, and their signatures computed once
TextD == << 100 >>    \* "d"
TextW == << 119 >>    \* "w"
Texts == {TextD, TextW}
\* 255 NUL bytes: a text that reads as record framing (ids 0, lengths 0)
TextNul == [i \in 1..255 |-> 0]
SigTable ==
    [t \in Texts \cup {TextNul, TextAlpha, TextBeta, TextGamma, TextAlphaBeta, TextAlphaGamma,
                          TextAlphaBetaGamma, TextAlphaB}
       |-> sig256(t)]
SigOf(s) == IF s \in DOMAIN SigTable THEN SigTable[s] ELSE sig256(s)

\* simd::popcnt4 and simd::overlap_popcnt (the scalar path)
popcnt4(sig) == Cardinality(sig)
overlap_popcnt(a, b) == Cardinality(a \cap b)

(***************************************************************************)
(* ingest.rs: the queue item                                               *)
(***************************************************************************)
\* Option<u32>
None    == [some |-> FALSE, v |-> {}]
Some(x) == [some |-> TRUE, v |-> x]

IngestItem(id, search, title, author, genres, url, uri) ==
    [id |-> id, search |-> search, title |-> title, author |-> author,
     genres |-> genres, url |-> url, uri |-> uri]

\* ingest_bin and parse_ingest_pack: the wire id u32::MAX means "no id"
WireIdToOption(id) == IF id = U32_MAX THEN None ELSE Some(id)

(***************************************************************************)
(* storage.rs: the packed log                                              *)
(***************************************************************************)
PackRec(id, search, title, author, genres, url, uri) ==
    [id |-> id, search |-> search, title |-> title, author |-> author,
     genres |-> genres, url |-> url, uri |-> uri]

\* the bytes PackWal::append_pack hands to write_all, in the order it writes
RecordBytes(id, search, title, author, genres, url, uri) ==
    U32ToLeBytes(id)
    \o U16CastToLeBytes(Len(search)) \o U16CastToLeBytes(Len(title))
    \o U16CastToLeBytes(Len(author)) \o U16CastToLeBytes(Len(genres))
    \o U16CastToLeBytes(Len(url))    \o U16CastToLeBytes(Len(uri))
    \o search \o title \o author \o genres \o url \o uri

\* the byte count append_pack adds to self.unsynced
RecordSize(search, title, author, genres, url, uri) ==
    4 + 12 + Len(search) + Len(title) + Len(author) + Len(genres)
      + Len(url) + Len(uri)

\* BufReader::read_exact of n bytes at offset pos: the bytes, or a short read
CanRead(file, pos, n) == pos + n <= Len(file)
ReadBytes(file, pos, n) == SubSeq(file, pos + 1, pos + n)

\* PackReader::next at offset pos.  kind is "rec" (Ok(Some(rec)), the reader
\* now at pos), "none" (Ok(None)) or "err" (Err(UnexpectedEof), which the
\* ? on the payload reads returns to the caller).
PackReaderNext(file, pos) ==
    IF ~CanRead(file, pos, 4) THEN [kind |-> "none", pos |-> pos]
    ELSE IF ~CanRead(file, pos + 4, 12) THEN [kind |-> "none", pos |-> pos]
    ELSE
      LET id   == U32FromLeBytes(ReadBytes(file, pos, 4))
          lens == ReadBytes(file, pos + 4, 12)
          sl == U16FromLeBytes(lens[1], lens[2])
          tl == U16FromLeBytes(lens[3], lens[4])
          al == U16FromLeBytes(lens[5], lens[6])
          gl == U16FromLeBytes(lens[7], lens[8])
          ul == U16FromLeBytes(lens[9], lens[10])
          rl == U16FromLeBytes(lens[11], lens[12])
          p0 == pos + 16
          p1 == p0 + sl
          p2 == p1 + tl
          p3 == p2 + al
          p4 == p3 + gl
          p5 == p4 + ul
          p6 == p5 + rl
      IN  IF \/ (sl > 0 /\ ~CanRead(file, p0, sl))
             \/ (tl > 0 /\ ~CanRead(file, p1, tl))
             \/ (al > 0 /\ ~CanRead(file, p2, al))
             \/ (gl > 0 /\ ~CanRead(file, p3, gl))
             \/ (ul > 0 /\ ~CanRead(file, p4, ul))
             \/ (rl > 0 /\ ~CanRead(file, p5, rl))
          THEN [kind |-> "err", pos |-> pos]
          ELSE [kind |-> "rec", pos |-> p6,
                rec |-> PackRec(id, ReadBytes(file, p0, sl), ReadBytes(file, p1, tl),
                                ReadBytes(file, p2, al), ReadBytes(file, p3, gl),
                                ReadBytes(file, p4, ul), ReadBytes(file, p5, rl))]

RECURSIVE ReadLog(_, _)
\* the loop `while let Some(rec) = rdr.next()?` from offset pos: the records
\* it yields and how it ends, "eof" (next returned Ok(None)) or "err"
ReadLog(file, pos) ==
    LET r == PackReaderNext(file, pos)
    IN  IF r.kind = "rec"
        THEN LET rest == ReadLog(file, r.pos)
             IN  [recs |-> << r.rec >> \o rest.recs, end |-> rest.end]
        ELSE [recs |-> << >>, end |-> IF r.kind = "none" THEN "eof" ELSE "err"]

(***************************************************************************)
(* index.rs: the builder and the sealed segment                            *)
(***************************************************************************)
INTERSECT_CAP == 512

DocMeta(id, title, author, genres, url, uri) ==
    [id |-> id, title |-> title, author |-> author, genres |-> genres,
     url |-> url, uri |-> uri]

\* IndexBuilder::new.  id_to_row is the set of (id, row) entries of the map.
NewBuilder ==
    [meta |-> << >>, signatures_aos |-> << >>, id_to_row |-> {},
     pop |-> << >>, since_seal |-> 0]

\* IndexBuilder::len
BuilderLen(b) == Len(b.signatures_aos)

\* IndexBuilder::docs_since_seal
docs_since_seal(b) == b.since_seal

\* HashMap::get
MapHas(m, k) == \E e \in m : e[1] = k
MapGet(m, k) == (CHOOSE e \in m : e[1] = k)[2]

\* an add that appends a row whatever the id
BuilderAddAlwaysAppends(b, item) ==
    LET gid    == IF item.id.some THEN item.id.v ELSE U32Of(Len(b.meta))
        sig    == SigOf(item.search)
        m      == DocMeta(gid, item.title, item.author, item.genres,
                          item.url, item.uri)
    IN  [b EXCEPT !.id_to_row = @ \cup {<<gid, Len(b.meta)>>},
                  !.signatures_aos = Append(@, sig),
                  !.pop = Append(@, popcnt4(sig) % U16_MOD),
                  !.meta = Append(@, m),
                  !.since_seal = @ + 1]

\* IndexBuilder::add.  Rows are numbered from 0; row r is element r + 1.
BuilderAdd(b, item) ==
    LET gid    == IF item.id.some THEN item.id.v ELSE U32Of(Len(b.meta))
        sig    == SigOf(item.search)
        popcnt == popcnt4(sig) % U16_MOD
        m      == DocMeta(gid, item.title, item.author, item.genres,
                          item.url, item.uri)
    IN  IF MapHas(b.id_to_row, gid)
        THEN LET idx == MapGet(b.id_to_row, gid) + 1
             IN  [b EXCEPT !.signatures_aos[idx] = sig,
                           !.pop[idx] = popcnt,
                           !.meta[idx] = m]
        ELSE LET row == Len(b.meta)
             IN  [b EXCEPT !.id_to_row = @ \cup {<<gid, row>>},
                           !.signatures_aos = Append(@, sig),
                           !.pop = Append(@, popcnt),
                           !.meta = Append(@, m),
                           !.since_seal = @ + 1]

AscendingSeq(S) ==
    Iterate(LAMBDA st : Only({ [rest |-> st.rest \ {m}, out |-> Append(st.out, m)] :
                               m \in { CHOOSE x \in st.rest : \A y \in st.rest : x <= y } }),
            [rest |-> S, out |-> << >>], Cardinality(S)).out

\* a scan that stops one row early
BitRowsSkippingLast(sigs, bit) == { r \in 0..(Len(sigs) - 2) : bit \in sigs[r + 1] }

\* the rows pushed to postings[bit] by the scan of signatures_aos
BitRows(sigs, bit) == { r \in 0..(Len(sigs) - 1) : bit \in sigs[r + 1] }

PREF3_BASE == 36

RECURSIVE TokenEnd(_, _)
\* tokenize_bytes, inner loop: the first position at or after i that holds
\* no alphanumeric byte
TokenEnd(bytes, i) ==
    IF i <= Len(bytes) /\ is_alnum(bytes[i]) THEN TokenEnd(bytes, i + 1) ELSE i

RECURSIVE TokenizeFrom(_, _)
TokenizeFrom(bytes, i) ==
    IF i > Len(bytes) THEN << >>
    ELSE IF ~is_alnum(bytes[i]) THEN TokenizeFrom(bytes, i + 1)
    ELSE LET j == TokenEnd(bytes, i + 1)
         IN  << SubSeq(bytes, i, j - 1) >> \o TokenizeFrom(bytes, j)

\* tokenize_bytes: the maximal runs of alphanumeric bytes, in order
tokenize_bytes(bytes) == TokenizeFrom(bytes, 1)

\* char36: a-z to 0..25, 0-9 to 26..35, None otherwise
char36(b0) ==
    LET b == to_lower_ascii(b0)
    IN  IF 97 <= b /\ b <= 122 THEN Some(b - 97)
        ELSE IF 48 <= b /\ b <= 57 THEN Some(26 + (b - 48))
        ELSE None

\* pref3_index
pref3_index(b0, b1, b2) ==
    LET x == char36(b0)
        y == char36(b1)
        z == char36(b2)
    IN  IF x.some /\ y.some /\ z.some
        THEN Some(x.v * PREF3_BASE * PREF3_BASE + y.v * PREF3_BASE + z.v)
        ELSE None

TOKEN_HASH_SEED == U64FromLeBytes(<<21, 124, 74, 127, 185, 121, 55, 158>>)
TOKEN_HASH_MUL  == U64FromLeBytes(<<1, 0, 0, 0, 1, 0, 55, 158>>)

RECURSIVE HashBytes(_, _, _)
\* hash_token64, the loop: h ^= b; h = rotl(h, 13) * 0x9E37_0001_0000_0001
HashBytes(tok, i, h) ==
    IF i > Len(tok) THEN h
    ELSE HashBytes(tok, i + 1,
           U64WrappingMul(U64RotL(U64Xor(h, U64FromLeBytes(<<tok[i], 0, 0, 0, 0, 0, 0, 0>>)), 13),
                          TOKEN_HASH_MUL))

\* hash_token64
hash_token64(tok) ==
    LET h == HashBytes(tok, 1, TOKEN_HASH_SEED)
    IN  U64Xor(h, U64Shr(h, 33))

\* u64 "<" on words kept as sets of set-bit positions
U64Less(a, b) ==
    /\ a # b
    /\ LET d == U64Xor(a, b)
       IN  (CHOOSE x \in d : \A y \in d : y <= x) \in b

\* the tokens of the model's metadata and query texts, hashed once
TokenHashTable == [t \in SceneTokens |-> hash_token64(t)]
HashOf(tok) == IF tok \in DOMAIN TokenHashTable THEN TokenHashTable[tok] ELSE hash_token64(tok)

\* seal_into_segment: the normalized tokens of title + ' ' + author + ' ' + genres
MetaTokens(m) == tokenize_bytes(normalize(m.title \o << 32 >> \o m.author \o << 32 >> \o m.genres))

\* the (row, token) pairs handed to the tokenize_bytes callback, in order:
\* for (row, m) in self.meta.iter().enumerate()
TokenPushes(meta) ==
    Iterate(LAMBDA st : Only({ [r |-> st.r + 1,
                                out |-> st.out \o [i \in 1..Len(toks) |->
                                                     [row |-> st.r, tok |-> toks[i]]]] :
                               toks \in { MetaTokens(meta[st.r + 1]) } }),
            [r |-> 0, out |-> << >>], Len(meta)).out

\* the rows of a sequence of pushes
PushedRows(pushes) == [i \in 1..Len(pushes) |-> pushes[i].row]

\* a posting list left as pushed
Unsorted(v) == v

\* v.sort_unstable(); v.dedup()
SortDedup(v) == Only({ AscendingSeq(S) : S \in { { v[i] : i \in 1..Len(v) } } })

RECURSIVE SortPairsByKey(_)
\* collect the map's pairs and sort_by_key(|p| p.0)
SortPairsByKey(pairs) ==
    IF pairs = {} THEN << >>
    ELSE LET m == CHOOSE p \in pairs : \A o \in pairs : ~U64Less(o.key, p.key)
         IN  << m >> \o SortPairsByKey(pairs \ {m})

\* a token that takes part in pref3, and its bucket
HasPref3(tok) == Len(tok) >= 3 /\ pref3_index(tok[1], tok[2], tok[3]).some
Pref3Of(tok) == pref3_index(tok[1], tok[2], tok[3]).v

\* IndexBuilder::seal_into_segment: the Segment it returns.  s is the
\* signature column (s0..s3 row by row).  pref3 lists the non-empty buckets
\* only (the other buckets of the 36^3 are empty); full6 is the sorted list
\* of (key, rows) pairs.
SealedSegment(b) ==
    LET postings == [bit \in 0..255 |-> AscendingSeq(BitRows(b.signatures_aos, bit))]
    IN  Only({
         [s            |-> b.signatures_aos,
          pop          |-> b.pop,
          meta         |-> b.meta,
          bit_postings |-> postings,
          bit_freq     |-> [bit \in 0..255 |-> Len(postings[bit])],
          pref1        |-> [c \in 0..255 |->
                              SortDedup(PushedRows(SelectSeq(pushes, LAMBDA p : p.tok[1] = c)))],
          pref3        |-> [i \in { Pref3Of(p3[j].tok) : j \in 1..Len(p3) } |->
                              SortDedup(PushedRows(SelectSeq(p3, LAMBDA p : Pref3Of(p.tok) = i)))],
          full6        |-> SortPairsByKey(
                              { [key |-> k,
                                 rows |-> SortDedup(PushedRows(
                                            SelectSeq(p6, LAMBDA p : HashOf(p.tok) = k)))] :
                                k \in { HashOf(p6[i].tok) : i \in 1..Len(p6) } })] :
         pushes \in { TokenPushes(b.meta) },
         p3 \in { SelectSeq(TokenPushes(b.meta), LAMBDA p : HasPref3(p.tok)) },
         p6 \in { SelectSeq(TokenPushes(b.meta), LAMBDA p : Len(p.tok) <= 6) } })

\* the bucket pref3[idx]
Pref3At(seg, idx) == IF idx \in DOMAIN seg.pref3 THEN seg.pref3[idx] ELSE << >>

\* IndexBuilder::seal_into_segment: the builder it leaves behind (pop and
\* meta taken, signatures_aos and id_to_row cleared, since_seal reset)
BuilderAfterSeal(b) ==
    [b EXCEPT !.pop = << >>, !.meta = << >>, !.signatures_aos = << >>,
              !.id_to_row = {}, !.since_seal = 0]

\* Segment::len
SegLen(seg) == Len(seg.s)

RECURSIVE SumLens(_, _)
SumLens(segs, i) ==
    IF i > Len(segs) THEN 0 ELSE SegLen(segs[i]) + SumLens(segs, i + 1)

(***************************************************************************)
(* index.rs: search.  A score (f32 in the source) is the exact rational    *)
(* <<num, den>> of the same expression; a Hit is [seg, row, score].  The    *)
(* query text is empty here (a 36-byte request): no token, so no MUST-set  *)
(* and no prefix or exact bonus.                                           *)
(***************************************************************************)
FLAG_FUZZY_JACCARD == 1

Min2(a, b) == IF a <= b THEN a ELSE b
Max2(a, b) == IF a >= b THEN a ELSE b

RECURSIVE RatLess(_, _, _, _)
\* a/b < c/d for a, c >= 0 and b, d > 0, without forming the cross products
RatLess(a, b, c, d) ==
    LET q1 == a \div b
        q2 == c \div d
        r1 == a % b
        r2 == c % d
    IN  IF q1 # q2 THEN q1 < q2
        ELSE IF r2 = 0 THEN FALSE
        ELSE IF r1 = 0 THEN TRUE
        ELSE RatLess(d, r2, b, r1)

ScoreLT(x, y) == RatLess(x[1], x[2], y[1], y[2])
ScoreEQ(x, y) == ~ScoreLT(x, y) /\ ~ScoreLT(y, x)

\* #[derive(PartialOrd)] on Hit: the fields in declaration order, seg, row,
\* score.  The operators <, <=, > on Hit and on Reverse<Hit>, which
\* BinaryHeap and the merge test use, are these.
HitDerivedLT(a, b) ==
    \/ a.seg < b.seg
    \/ a.seg = b.seg /\ a.row < b.row
    \/ a.seg = b.seg /\ a.row = b.row /\ ScoreLT(a.score, b.score)

\* impl Ord for Hit: cmp by score, then row, then seg (the final sorts)
HitCmpLT(a, b) ==
    \/ ScoreLT(a.score, b.score)
    \/ ScoreEQ(a.score, b.score) /\ a.row < b.row
    \/ ScoreEQ(a.score, b.score) /\ a.row = b.row /\ a.seg < b.seg

\* BinaryHeap<Reverse<Hit>>::peek: the least hit of the heap
HeapPeek(heap) == CHOOSE h \in heap : \A g \in heap : g = h \/ HitDerivedLT(h, g)

RECURSIVE HeapDrain(_)
\* while let Some(Reverse(h)) = heap.pop(): least first
HeapDrain(heap) ==
    IF heap = {} THEN << >>
    ELSE LET h == HeapPeek(heap) IN << h >> \o HeapDrain(heap \ {h})

\* the hits left in the order the heap drains them
DrainOrder(hits) == HeapDrain(hits)

RECURSIVE SortHighToLow(_)
\* sort_unstable_by(|a, b| b.cmp(a)) on hits that differ in (seg, row)
SortHighToLow(hits) ==
    IF hits = {} THEN << >>
    ELSE LET h == CHOOSE x \in hits : \A y \in hits : y = x \/ HitCmpLT(y, x)
         IN  << h >> \o SortHighToLow(hits \ {h})

\* qbits left in gather order
BitsInGatherOrder(bits, freq) == AscendingSeq(bits)

RECURSIVE SortBitsByFreq(_, _)
\* qbits gathered lane by lane, lowest bit first, then
\* sort_unstable_by_key(bit_freq): slices of at most 20 elements are
\* insertion-sorted, which keeps the gather order among equal keys
SortBitsByFreq(bits, freq) ==
    IF bits = {} THEN << >>
    ELSE LET m == CHOOSE x \in bits : \A y \in bits :
                      freq[x] < freq[y] \/ (freq[x] = freq[y] /\ x <= y)
         IN  << m >> \o SortBitsByFreq(bits \ {m}, freq)

\* iter().take(n)
Take(seq, n) == SubSeq(seq, 1, Min2(n, Len(seq)))

\* intersect_in_place_bounded_tmp, one turn of the while loop on the state
\* (i, j, tmp), 1-based; a state that fails the loop condition stays
IntersectLoop(out, b, st, bound) ==
    IF st.i <= Len(out) /\ st.j <= Len(b) /\ Len(st.tmp) < bound
    THEN IF out[st.i] = b[st.j]
         THEN [i |-> st.i + 1, j |-> st.j + 1, tmp |-> Append(st.tmp, out[st.i])]
         ELSE IF out[st.i] < b[st.j] THEN [st EXCEPT !.i = @ + 1]
         ELSE [st EXCEPT !.j = @ + 1]
    ELSE st

\* intersect_in_place_bounded_tmp: the new contents of out
intersect_in_place_bounded_tmp(out, b, bound) ==
    IF out = << >> \/ b = << >> THEN << >>
    ELSE Only({ Iterate(LAMBDA st : IntersectLoop(o, c, st, bound),
                        [i |-> 1, j |-> 1, tmp |-> << >>], Len(o) + Len(c)).tmp :
                o \in {out}, c \in {b} })

\* a pruning loop that intersects with every bit's posting list, empty or not
PruneCandNoSkip(seg, qbits, cand, bit_idx, limit) ==
    SelectSeq(cand, LAMBDA row :
       \A j \in (bit_idx + 1)..limit : \E n \in DOMAIN seg.bit_postings[qbits[j]] : seg.bit_postings[qbits[j]][n] = row)

RECURSIVE PruneCand(_, _, _, _, _)
\* for bit_idx in 1..rare_bits_needed.min(qbits.len()) (0-based bit_idx)
PruneCand(seg, qbits, cand, bit_idx, limit) ==
    IF bit_idx >= limit \/ cand = << >> THEN cand
    ELSE LET bit == qbits[bit_idx + 1]
             next == IF seg.bit_freq[bit] # 0
                     THEN intersect_in_place_bounded_tmp(cand, seg.bit_postings[bit],
                                                         INTERSECT_CAP)
                     ELSE cand
         IN  PruneCand(seg, qbits, next, bit_idx + 1, limit)

RECURSIVE LookupLoop(_, _, _, _)
\* the binary search of lookup_full6: lo when the loop ends (0-based)
LookupLoop(pairs, key, lo, hi) ==
    IF lo < hi
    THEN LET mid == (lo + hi) \div 2
         IN  IF U64Less(pairs[mid + 1].key, key) THEN LookupLoop(pairs, key, mid + 1, hi)
             ELSE LookupLoop(pairs, key, lo, mid)
    ELSE lo

\* lookup_full6
lookup_full6(pairs, key) ==
    LET lo == LookupLoop(pairs, key, 0, Len(pairs))
    IN  IF lo < Len(pairs) /\ pairs[lo + 1].key = key THEN Some(pairs[lo + 1].rows) ELSE None

RECURSIVE ContainsLoop(_, _, _, _)
ContainsLoop(v, x, lo, hi) ==
    IF lo < hi
    THEN LET mid == (lo + hi) \div 2
         IN  IF v[mid + 1] < x THEN ContainsLoop(v, x, mid + 1, hi)
             ELSE ContainsLoop(v, x, lo, mid)
    ELSE lo

\* contains_sorted
contains_sorted(v, x) ==
    LET lo == ContainsLoop(v, x, 0, Len(v))
    IN  lo < Len(v) /\ v[lo + 1] = x

\* a seeding that keeps the last entries of src that fit
extend_cap_tail(out, src, cap) ==
    LET room == Max2(cap - Len(out), 0)
    IN  IF room = 0 THEN out
        ELSE out \o SubSeq(src, Len(src) - Min2(room, Len(src)) + 1, Len(src))


\* extend_cap without the cap
extend_uncapped(out, src, cap) == out \o src

\* extend_cap
extend_cap(out, src, cap) ==
    LET room == Max2(cap - Len(out), 0)
    IN  IF room = 0 THEN out ELSE out \o SubSeq(src, 1, Min2(room, Len(src)))

\* search_into_v2, step 0: the tokens of the normalized query text
QueryTokens(qtext) == tokenize_bytes(normalize(qtext))

\* last_owned
LastToken(tokens) == IF tokens = << >> THEN None ELSE Some(tokens[Len(tokens)])

\* others_short_owned: of the tokens before the last, the first four of
\* length <= 6
OthersShort(tokens) ==
    IF Len(tokens) > 1
    THEN Take(SelectSeq(SubSeq(tokens, 1, Len(tokens) - 1), LAMBDA t : Len(t) <= 6), 4)
    ELSE << >>

\* a search without MUST-set
must_slice_none(seg, last) == << >>

\* must_slice: pref3 of a last token of 3 bytes or more, else pref1
must_slice(seg, last) ==
    IF ~last.some THEN << >>
    ELSE IF Len(last.v) >= 3
         THEN IF pref3_index(last.v[1], last.v[2], last.v[3]).some
              THEN Pref3At(seg, pref3_index(last.v[1], last.v[2], last.v[3]).v)
              ELSE << >>
         ELSE seg.pref1[last.v[1]]

\* last_prefix_len
last_prefix_len(last) == IF last.some THEN Len(last.v) ELSE 0

\* a lookup of the last token that finds nothing
last_exact_slice_none(seg, last) == None

\* last_exact_slice
last_exact_slice(seg, last) ==
    IF last.some /\ Len(last.v) <= 6 THEN lookup_full6(seg.full6, HashOf(last.v)) ELSE None

RECURSIVE other_exact_slices(_, _)
\* other_exact_slices[0..ocount]: the lists found for the other short tokens
other_exact_slices(seg, others) ==
    IF others = << >> THEN << >>
    ELSE LET v == lookup_full6(seg.full6, HashOf(Head(others)))
         IN  (IF v.some THEN << v.v >> ELSE << >>) \o other_exact_slices(seg, Tail(others))

W_EXACT_LAST      == 1000
W_EXACT_ANY       == 200
W_PREFIX_PER_CHAR == 30

RECURSIVE PruneSteps(_, _, _, _, _)
\* the candidate list after each intersection the pruning loop performs
PruneSteps(seg, qbits, cand, bit_idx, limit) ==
    IF bit_idx >= limit \/ cand = << >> THEN << >>
    ELSE IF seg.bit_freq[qbits[bit_idx + 1]] # 0
         THEN Only({ << next >> \o PruneSteps(seg, qbits, next, bit_idx + 1, limit) :
                     next \in { intersect_in_place_bounded_tmp(
                                  cand, seg.bit_postings[qbits[bit_idx + 1]], INTERSECT_CAP) } })
         ELSE PruneSteps(seg, qbits, cand, bit_idx + 1, limit)

\* the score of a candidate row with inter > 0 before the token bonuses,
\* as an exact fraction
RowScore(seg, row, q) ==
    LET inter == overlap_popcnt(seg.s[row + 1], q.sig)
        pb    == seg.pop[row + 1]
        den   == 100 * (50 + pb)
        num   == 5000 * inter + Min2(25, 2 * inter) * (50 + pb)
        qpop  == popcnt4(q.sig)
        union == Max2(qpop + pb - inter, 1)
    IN  IF (q.flags % 2) = FLAG_FUZZY_JACCARD /\ 20 * inter >= union
        THEN << num * union + 100 * inter * den, den * union >>
        ELSE << num, den >>

\* the prefix, exact-last and exact-any bonuses of a candidate row
RowBonus(seg, row, last, others) ==
    LET must == must_slice(seg, last)
        lex  == last_exact_slice(seg, last)
        oth  == other_exact_slices(seg, others)
    IN    (IF last_prefix_len(last) > 0 /\ must # << >> /\ contains_sorted(must, row)
           THEN Min2(last_prefix_len(last), 10) * W_PREFIX_PER_CHAR ELSE 0)
        + (IF lex.some /\ contains_sorted(lex.v, row) THEN W_EXACT_LAST ELSE 0)
        + (IF \E i \in 1..Len(oth) : oth[i] # << >> /\ contains_sorted(oth[i], row)
           THEN W_EXACT_ANY ELSE 0)

\* score_val of a candidate row with inter > 0
RowScoreText(seg, row, q, last, others) ==
    LET base == RowScore(seg, row, q)
    IN  << base[1] + RowBonus(seg, row, last, others) * base[2], base[2] >>

\* the local heap loop, one touched hit h: push below k hits, else replace
\* the least hit of the heap when h scores above it; "panic" is
\* heap.peek().unwrap() on an empty heap (k = 0)
LocalPush(st, h, k) ==
    IF st.panic THEN st
    ELSE IF Cardinality(st.heap) < k THEN [st EXCEPT !.heap = @ \cup {h}]
    ELSE IF st.heap = {} THEN [st EXCEPT !.panic = TRUE]
    ELSE Only({ IF ScoreLT(least.score, h.score)
                THEN [st EXCEPT !.heap = (@ \ {least}) \cup {h}]
                ELSE st : least \in { HeapPeek(st.heap) } })

\* the per-segment heap after walking the touched hits
LocalHeap(touched, k, heap) ==
    Only({ [panic |-> end.panic, heap |-> end.heap] :
           end \in { Iterate(LAMBDA st : [LocalPush(st, touched[st.i], k) EXCEPT !.i = @ + 1],
                             [panic |-> FALSE, heap |-> heap, i |-> 1], Len(touched)) } })

\* search_into_v2, steps 1 to 3 and the pruning: the candidate list after
\* the seeding, after the rare-bit intersections and after the MUST
\* intersection
Candidates(seg, q, qtext) ==
    LET qbits == SortBitsByFreq(q.sig, seg.bit_freq)
        grams_count == Len(qbits)
        must == must_slice(seg, LastToken(QueryTokens(qtext)))
        seed == IF must # << >> THEN extend_cap(<< >>, must, INTERSECT_CAP)
                ELSE IF qbits # << >> /\ seg.bit_freq[qbits[1]] # 0
                     THEN Take(seg.bit_postings[qbits[1]], INTERSECT_CAP)
                     ELSE << >>
        rare_bits_needed == IF grams_count < 5 THEN 1
                            ELSE IF grams_count < 10 THEN 2 ELSE 3
        pruned == PruneCand(seg, qbits, seed, 1, Min2(rare_bits_needed, Len(qbits)))
        cand == IF must # << >>
                THEN intersect_in_place_bounded_tmp(pruned, must, INTERSECT_CAP)
                ELSE pruned
    IN  [qbits |-> qbits, must |-> must, seed |-> seed,
         steps |-> PruneSteps(seg, qbits, seed, 1, Min2(rare_bits_needed, Len(qbits))),
         pruned |-> pruned, cand |-> cand]

\* a scoring loop that keeps every candidate
ScoredRowsAll(seg, q, cand) == cand

\* the scoring loop's `if inter <= 0.0 { continue; }`: the candidates that
\* get a score
ScoredRows(seg, q, cand) ==
    SelectSeq(cand, LAMBDA row : overlap_popcnt(seg.s[row + 1], q.sig) > 0)

\* search_into_v2, step 4 and the local heap: the hits pushed to out for the
\* candidate list cand
ScoreAndCap(seg, seg_id, q, last, others, cand) ==
    LET scored == ScoredRows(seg, q, cand)
    IN  Only({ [panic |-> local.panic, out |-> HeapDrain(local.heap)] :
               local \in { Only({ LocalHeap(touched, q.k, {}) :
                              touched \in { [i \in 1..Len(sc) |->
                                 [seg |-> seg_id, row |-> sc[i],
                                  score |-> RowScoreText(seg, sc[i], q, last, others)]] :
                                            sc \in {scored} } }) } })

\* Segment::search_into_v2 under the thread's query text: the hits it
\* pushes to out
search_into_v2(seg, seg_id, q, qtext) ==
    IF SegLen(seg) = 0 THEN [panic |-> FALSE, out |-> << >>]
    ELSE Only({ IF cand = << >> THEN [panic |-> FALSE, out |-> << >>]
                ELSE ScoreAndCap(seg, seg_id, q, LastToken(tokens), OthersShort(tokens), cand) :
                cand \in { Candidates(seg, q, qtext).cand },
                tokens \in { QueryTokens(qtext) } })

RECURSIVE PoolRange(_, _, _, _, _)
\* the loop of IndexView::search over segments[lo - 1 .. hi], split in
\* halves: seg.search_into_v2(seg_id as u16, q, pooled) for each, in order
PoolRange(segs, lo, hi, q, qtext) ==
    IF lo > hi THEN [panic |-> FALSE, out |-> << >>]
    ELSE IF lo = hi THEN search_into_v2(segs[lo], (lo - 1) % U16_MOD, q, qtext)
    ELSE Only({ [panic |-> one.panic \/ rest.panic, out |-> one.out \o rest.out] :
                one \in { PoolRange(segs, lo, lo + ((hi - lo) \div 2), q, qtext) },
                rest \in { PoolRange(segs, lo + ((hi - lo) \div 2) + 1, hi, q, qtext) } })

\* for (seg_id, seg) in segments: seg.search_into_v2(seg_id as u16, q, pooled),
\* from segment i on
PoolSegments(segs, i, q, qtext) ==
    Only({ PoolRange(segs, i, n, q, qtext) : n \in { Len(segs) } })

\* the global heap loop, one pooled hit h: push below k hits, else replace
\* the least hit of the heap when h > it
GlobalPush(heap, h, k) ==
    IF Cardinality(heap) < k THEN heap \cup {h}
    ELSE Only({ IF HitDerivedLT(least, h) THEN (heap \ {least}) \cup {h} ELSE heap :
                least \in { HeapPeek(heap) } })

\* the global heap after walking the pooled hits
GlobalHeap(pooled, k, heap) ==
    Iterate(LAMBDA st : [heap |-> GlobalPush(st.heap, pooled[st.i], k), i |-> st.i + 1],
            [heap |-> heap, i |-> 1], Len(pooled)).heap

\* with_query_text(qtext, || view.search(q)): IndexView::search over the
\* segments of a view while the thread's query text is qtext
with_query_text(qtext, segs, q) ==
    IF segs = << >> THEN [panic |-> FALSE, hits |-> << >>]
    ELSE Only({ IF pool.panic THEN [panic |-> TRUE, hits |-> << >>]
                ELSE IF Len(pool.out) <= q.k
                     THEN [panic |-> FALSE,
                           hits |-> SortHighToLow({ pool.out[i] : i \in 1..Len(pool.out) })]
                     ELSE [panic |-> FALSE,
                           hits |-> SortHighToLow(GlobalHeap(pool.out, q.k, {}))] :
                pool \in { PoolSegments(segs, 1, q, qtext) } })

\* IndexView::search with no query text
ViewSearch(segs, q) == with_query_text(<< >>, segs, q)

\* wire::encode_hits_binary: the external id written for each hit
HitIds(segs, hits) ==
    [i \in 1..Len(hits) |-> segs[hits[i].seg + 1].meta[hits[i].row + 1].id]

(***************************************************************************)
(* index.rs / main.rs: views.  Segments and views live in heaps; a handle  *)
(* (Arc) is an index into its heap.  A view is the sequence of its segment *)
(* handles.                                                                *)
(***************************************************************************)
\* the segments behind a sequence of handles
Deref(heap, handles) == [i \in 1..Len(handles) |-> heap[handles[i]]]

\* IndexView::total_docs
total_docs(heap, handles) == SumLens(Deref(heap, handles), 1)

\* a publish that replaces the last segment instead of appending
NextSegmentsReplacingLast(cur, seg) ==
    IF cur = << >> THEN << seg >> ELSE [cur EXCEPT ![Len(cur)] = seg]

\* builder_loop: next = view.segments.to_vec(); next.push(seg)
NextSegments(cur, seg) == Append(cur, seg)

\* a seal that writes the builder's rows over the segment sealed last
SegmentsResealedInPlace(heap, b) ==
    IF heap = << >> THEN << SealedSegment(b) >>
    ELSE [heap EXCEPT ![Len(heap)] = SealedSegment(b)]

\* builder_loop: seg = Arc::new(builder.seal_into_segment()), a new
\* allocation that owns its columns
SegmentsAfterSeal(heap, b) == Append(heap, SealedSegment(b))

\* a publish that writes the segment list into the current view object
StoreViewInPlace(views, next) ==
    [views |-> [views EXCEPT ![Len(views)] = next], published |-> Len(views)]

\* a publish that builds the new view and leaves the pointer on the old one
StoreViewUnpublished(views, next) ==
    [views |-> Append(views, next), published |-> Len(views)]

\* app.view.store(Arc::new(IndexView::from_segments(next))): a new view
\* object, and the pointer swapped to it
StoreView(views, next) ==
    [views |-> Append(views, next), published |-> Len(views) + 1]

(***************************************************************************)
(* main.rs: the writer's decisions                                         *)
(***************************************************************************)
DRAIN_BURST == 8192
QUEUE_CAP   == 65536

\* it.id.unwrap_or_else(|| { let x = next_id; next_id = x.wrapping_add(1); x })
AssignedId(item, nid) == IF item.id.some THEN item.id.v ELSE nid
NextIdAfter(item, nid) == IF item.id.some THEN nid ELSE U32WrappingInc(nid)

\* if gid == u32::MAX { continue; }
RejectsSentinel(gid) == gid = U32_MAX

\* a writer that feeds the builder whatever append_pack returned
BuilderAfterAppendAlways(b, item, gid, ok) ==
    BuilderAdd(b, [item EXCEPT !.id = Some(gid)])

\* the builder after the append: fed only when append_pack returned Ok
BuilderAfterAppend(b, item, gid, ok) ==
    IF ok THEN BuilderAdd(b, [item EXCEPT !.id = Some(gid)]) ELSE b

\* a flush check that seals only past the document threshold
ShouldFlushByCountOnly(docs_since, flush_docs, timed_out) ==
    docs_since > 0 /\ docs_since >= flush_docs

\* docs_since > 0 && (docs_since >= flush_docs || timed_out)
ShouldFlush(docs_since, flush_docs, timed_out) ==
    docs_since > 0 /\ (docs_since >= flush_docs \/ timed_out)

(***************************************************************************)
(* main.rs: boot replay                                                    *)
(***************************************************************************)
\* the IngestItem built from a replayed record
ReplayItem(rec) ==
    IngestItem(Some(rec.id), rec.search, rec.title, rec.author, rec.genres,
               rec.url, rec.uri)

RECURSIVE ReplayLoop(_, _, _, _, _)
\* boot_builder.add(item); seal when boot_builder.len() >= replay_seg_docs;
\* after the loop, seal what is left
ReplayLoop(recs, i, b, segments, replay_seg_docs) ==
    IF i > Len(recs)
    THEN IF BuilderLen(b) > 0 THEN Append(segments, SealedSegment(b)) ELSE segments
    ELSE LET b1 == BuilderAdd(b, ReplayItem(recs[i]))
         IN  IF BuilderLen(b1) >= replay_seg_docs
             THEN ReplayLoop(recs, i + 1, BuilderAfterSeal(b1),
                             Append(segments, SealedSegment(b1)), replay_seg_docs)
             ELSE ReplayLoop(recs, i + 1, b1, segments, replay_seg_docs)

\* the segments of the initial view, given the records the reader yielded
ReplaySegments(recs, replay_seg_docs) ==
    ReplayLoop(recs, 1, NewBuilder, << >>, replay_seg_docs)

(***************************************************************************)
(* Bounds and inputs of the model                                          *)
(***************************************************************************)
MaxEnq        == 2    \* items submitted over a whole behaviour
MaxFails      == 1    \* append_pack calls that fail
MaxCrashes    == 1    \* kills of the process
FlushDocs     == 2    \* FLUSH_DOCS
ReplaySegDocs == 2    \* REPLAY_SEG_DOCS
SyncBytes     == 40   \* WAL_SYNC=coalesce:<n>

Readers == {"r1"}

\* ids on the wire: a caller id, and the sentinel
WireIds == {U32Of(0), U32_MAX}

\* what the three endpoints can put on the queue
LineItems ==
    { IngestItem(id, t, << >>, << >>, << >>, << >>, << >>) :
        id \in {None} \cup { Some(w) : w \in WireIds }, t \in Texts }
BinItems ==
    { IngestItem(WireIdToOption(w), t, << >>, << >>, << >>, << >>, << >>) :
        w \in WireIds, t \in Texts }
PackItems ==
    { IngestItem(WireIdToOption(w), t, << >>, << >>, << >>, << >>, << >>) :
        w \in WireIds, t \in Texts }

Query256(k, flags, sig) == [k |-> k, flags |-> flags, sig |-> sig]
Queries == { Query256(1, 0, SigOf(t)) : t \in Texts }

(***************************************************************************)
(* State                                                                   *)
(***************************************************************************)
VARIABLES
    proc,       \* "serving", "down" (killed) or "failed" (main returned Err)
    queue,      \* the bounded ingest channel
    wal,        \* the bytes of <data_dir>/shard<id>.pack
    unsynced,   \* PackWal::unsynced
    builder,    \* builder_loop's IndexBuilder
    next_id,    \* builder_loop's id counter
    burst,      \* iterations of the drain loop since the last flush check
    segheap,    \* the sealed segments (Arc<Segment>)
    viewheap,   \* the views built so far (Arc<IndexView>)
    published,  \* the ArcSwap pointer: the handle of the current view
    rd,         \* per reader: the request in progress
    enq,        \* items submitted so far
    faults_left, \* append_pack failures the environment may still inject
    kills_left,  \* kills the environment may still inject
    wev,        \* history: the writer's (or main's) last step
    oklog,      \* history: the appends that returned Ok, over all runs
    prehits     \* history: per query, the ids the view returned at the kill

vars == << proc, queue, wal, unsynced, builder, next_id, burst, segheap,
           viewheap, published, rd, enq, faults_left, kills_left, wev, oklog, prehits >>

NoItem == IngestItem(None, << >>, << >>, << >>, << >>, << >>, << >>)

NoEvent ==
    [kind |-> "none", item |-> NoItem, gid |-> {}, outcome |-> "none",
     written |-> 0, since |-> 0, timed_out |-> FALSE, torn |-> FALSE,
     end |-> "none"]

IdleReader ==
    [pc |-> "idle", kind |-> "none", view |-> 0, q |-> Query256(0, 0, {}),
     segs0 |-> << >>, total0 |-> 0, panic |-> FALSE, hits |-> << >>,
     ids |-> << >>, segments |-> 0, docs_total |-> 0,
     item |-> NoItem, waited |-> 0, err |-> FALSE,
     body |-> << >>, status |-> 0, qtext |-> << >>,
     acc |-> << >>, calls |-> << >>, last |-> << >>, begins |-> 0]

\* the process right after main has booted on an empty log
Booted ==
    /\ proc = "serving"
    /\ queue = << >>
    /\ wal = << >>
    /\ unsynced = 0
    /\ builder = NewBuilder
    /\ next_id = {}
    /\ burst = 0
    /\ segheap = << >>
    /\ viewheap = << << >> >>
    /\ published = 1
    /\ rd = [r \in Readers |-> IdleReader]
    /\ enq = 0
    /\ wev = NoEvent
    /\ oklog = << >>
    /\ prehits = [q \in Queries |-> {}]

\* the segment handles of the published view
PublishedSegs == viewheap[published]

(***************************************************************************)
(* Ingest handlers: /ingest, /ingest.bin, /ingest.pack                     *)
(***************************************************************************)
Submit(item) ==
    /\ proc = "serving"
    /\ enq < MaxEnq
    /\ Len(queue) < QUEUE_CAP
    /\ queue' = Append(queue, item)
    /\ enq' = enq + 1
    /\ UNCHANGED << proc, wal, unsynced, builder, next_id, burst, segheap,
                    viewheap, published, rd, faults_left, kills_left, wev, oklog, prehits >>

IngestLines == \E item \in LineItems : Submit(item)
IngestBin   == \E item \in BinItems : Submit(item)
IngestPack  == \E item \in PackItems : Submit(item)

(***************************************************************************)
(* builder_loop                                                            *)
(***************************************************************************)
\* PackWal::append_pack on the file `file` with self.unsynced = uns, when
\* every write_all and the sync_data (due once unsynced reaches the
\* threshold) succeed
AppendPackOk(file, uns, id, search, title, author, genres, url, uri) ==
    LET u1 == uns + RecordSize(search, title, author, genres, url, uri)
    IN  [ok |-> TRUE,
         wal |-> file \o RecordBytes(id, search, title, author, genres, url, uri),
         unsynced |-> IF u1 >= SyncBytes THEN 0 ELSE u1]

\* PackWal::append_pack: the ways it can end.  Ok; Err from a write_all
\* after any proper prefix of the record reached the file; Err from
\* sync_data after all of it did.
append_pack(file, uns, id, search, title, author, genres, url, uri) ==
    LET bytes == RecordBytes(id, search, title, author, genres, url, uri)
        u1    == uns + RecordSize(search, title, author, genres, url, uri)
        due   == u1 >= SyncBytes
    IN  { AppendPackOk(file, uns, id, search, title, author, genres, url, uri) }
        \cup { [ok |-> FALSE, wal |-> file \o SubSeq(bytes, 1, n), unsynced |-> uns]
               : n \in 0..(Len(bytes) - 1) }
        \cup (IF due THEN { [ok |-> FALSE, wal |-> file \o bytes, unsynced |-> u1] }
               ELSE {})

\* one iteration of `for _ in 0..8192` that receives an item
WriterTake ==
    /\ proc = "serving"
    /\ queue # << >>
    /\ burst < DRAIN_BURST
    /\ LET it  == Head(queue)
           gid == AssignedId(it, next_id)
       IN  /\ queue' = Tail(queue)
           /\ next_id' = NextIdAfter(it, next_id)
           /\ burst' = burst + 1
           /\ IF RejectsSentinel(gid)
              THEN /\ wev' = [NoEvent EXCEPT !.kind = "take", !.item = it, !.gid = gid,
                                             !.outcome = "rejected"]
                   /\ UNCHANGED << wal, unsynced, builder, faults_left, oklog >>
              ELSE \E res \in append_pack(wal, unsynced, gid, it.search, it.title,
                                          it.author, it.genres, it.url, it.uri) :
                   /\ res.ok \/ faults_left > 0
                   /\ wal' = res.wal
                   /\ unsynced' = res.unsynced
                   /\ builder' = BuilderAfterAppend(builder, it, gid, res.ok)
                   /\ faults_left' = IF res.ok THEN faults_left ELSE faults_left - 1
                   /\ oklog' = IF res.ok
                               THEN Append(oklog,
                                      [rec |-> PackRec(gid, it.search, it.title, it.author,
                                                       it.genres, it.url, it.uri),
                                       auto |-> ~it.id.some])
                               ELSE oklog
                   /\ wev' = [NoEvent EXCEPT !.kind = "take", !.item = it, !.gid = gid,
                                             !.outcome = IF res.ok THEN "ok" ELSE "failed",
                                             !.written = Len(res.wal) - Len(wal)]
    /\ UNCHANGED << proc, segheap, viewheap, published, rd, enq, kills_left, prehits >>

\* the end of a drain burst (the channel is empty, or 8192 iterations ran):
\* the flush check.  timed_out is last_flush.elapsed() >= flush_ms.
WriterFlushCheck ==
    /\ proc = "serving"
    /\ queue = << >> \/ burst = DRAIN_BURST
    /\ \E timed_out \in BOOLEAN :
         LET docs_since == docs_since_seal(builder)
         IN  /\ wev' = [NoEvent EXCEPT !.kind = "check", !.since = docs_since,
                                       !.timed_out = timed_out]
             /\ IF ShouldFlush(docs_since, FlushDocs, timed_out)
                THEN LET seg    == Len(segheap) + 1
                         next   == NextSegments(viewheap[published], seg)
                         stored == StoreView(viewheap, next)
                     IN  /\ segheap' = SegmentsAfterSeal(segheap, builder)
                         /\ builder' = BuilderAfterSeal(builder)
                         /\ viewheap' = stored.views
                         /\ published' = stored.published
                ELSE UNCHANGED << segheap, builder, viewheap, published >>
    /\ burst' = 0
    /\ UNCHANGED << proc, queue, wal, unsynced, next_id, rd, enq, faults_left, kills_left,
                    oklog, prehits >>

(***************************************************************************)
(* Kill and restart                                                        *)
(***************************************************************************)
\* the ids a query returns from the published view
PublishedIds(q) ==
    LET segs == Deref(segheap, PublishedSegs)
        hits == ViewSearch(segs, q).hits
    IN  { HitIds(segs, hits)[i] : i \in 1..Len(hits) }

\* what a kill leaves of the process: the file, nothing of the memory
Killed(file, torn) ==
    /\ proc' = "down"
    /\ wal' = file
    /\ queue' = << >>
    /\ unsynced' = 0
    /\ builder' = NewBuilder
    /\ next_id' = {}
    /\ burst' = 0
    /\ segheap' = << >>
    /\ viewheap' = << << >> >>
    /\ published' = 1
    /\ rd' = [r \in Readers |-> IdleReader]
    /\ kills_left' = kills_left - 1
    /\ wev' = [NoEvent EXCEPT !.kind = "kill", !.torn = torn]
    /\ prehits' = [q \in Queries |-> PublishedIds(q)]
    /\ UNCHANGED << enq, faults_left, oklog >>

\* the process is killed between two steps of the writer
Kill ==
    /\ proc = "serving"
    /\ kills_left > 0
    /\ Killed(wal, FALSE)

\* the process is killed inside append_pack, n bytes of the record written
KillInAppend ==
    /\ proc = "serving"
    /\ kills_left > 0
    /\ queue # << >>
    /\ burst < DRAIN_BURST
    /\ LET it    == Head(queue)
           gid   == AssignedId(it, next_id)
           bytes == RecordBytes(gid, it.search, it.title, it.author, it.genres,
                                it.url, it.uri)
       IN  /\ ~RejectsSentinel(gid)
           /\ \E n \in 1..(Len(bytes) - 1) :
                 Killed(wal \o SubSeq(bytes, 1, n), TRUE)

\* main: boot replay, the initial view, the writer spawned
Boot ==
    /\ proc = "down"
    /\ LET r == ReadLog(wal, 0)
       IN  /\ wev' = [NoEvent EXCEPT !.kind = "boot", !.torn = wev.torn, !.end = r.end]
           /\ IF r.end = "err"
              THEN /\ proc' = "failed"
                   /\ UNCHANGED << segheap, viewheap, published >>
              ELSE LET segments == ReplaySegments(r.recs, ReplaySegDocs)
                   IN  /\ proc' = "serving"
                       /\ segheap' = segments
                       /\ viewheap' = << [i \in 1..Len(segments) |-> i] >>
                       /\ published' = 1
    /\ UNCHANGED << queue, wal, unsynced, builder, next_id, burst, rd, enq,
                    faults_left, kills_left, oklog, prehits >>

(***************************************************************************)
(* Query handlers: /search and /stats                                      *)
(***************************************************************************)
\* let view = app.view.load()
LoadView(r, kind, q) ==
    /\ proc = "serving"
    /\ rd[r].pc \in {"idle", "done"}
    /\ rd' = [rd EXCEPT ![r] =
                [IdleReader EXCEPT !.pc = "loaded", !.kind = kind, !.view = published,
                                   !.q = q,
                                   !.segs0 = Deref(segheap, viewheap[published]),
                                   !.total0 = total_docs(segheap, viewheap[published])]]
    /\ UNCHANGED << proc, queue, wal, unsynced, builder, next_id, burst, segheap,
                    viewheap, published, enq, faults_left, kills_left, wev, oklog, prehits >>

SearchLoad == \E r \in Readers, q \in Queries : LoadView(r, "search", q)
StatsLoad  == \E r \in Readers : LoadView(r, "stats", Query256(0, 0, {}))

\* the rest of the handler, on the view it loaded
Respond ==
    \E r \in Readers :
      /\ proc = "serving"
      /\ rd[r].pc = "loaded"
      /\ LET handles == viewheap[rd[r].view]
             segs    == Deref(segheap, handles)
             res     == with_query_text(rd[r].qtext, segs, rd[r].q)
         IN  rd' = [rd EXCEPT ![r] =
                      IF rd[r].kind = "search"
                      THEN [@ EXCEPT !.pc = "done", !.panic = res.panic,
                                     !.status = IF res.panic THEN 0 ELSE 200,
                                     !.hits = res.hits, !.ids = HitIds(segs, res.hits)]
                      ELSE [@ EXCEPT !.pc = "done", !.status = 200,
                                     !.segments = Len(handles),
                                     !.docs_total = total_docs(segheap, handles)]]
      /\ UNCHANGED << proc, queue, wal, unsynced, builder, next_id, burst, segheap,
                      viewheap, published, enq, faults_left, kills_left, wev, oklog, prehits >>

(***************************************************************************)
(* Specifications.  Spec is the live server: ingest, the writer and the    *)
(* query handlers.  SpecFail adds failing appends, SpecCrash adds kills    *)
(* and restarts.  SpecWal and SpecGarble follow below.                     *)
(***************************************************************************)
Init == Booted /\ faults_left = 0 /\ kills_left = 0

Next ==
    \/ IngestLines
    \/ IngestBin
    \/ IngestPack
    \/ WriterTake
    \/ WriterFlushCheck
    \/ SearchLoad
    \/ StatsLoad
    \/ Respond

Spec == Init /\ [][Next]_vars

InitFail == Booted /\ faults_left = MaxFails /\ kills_left = 0

NextFail ==
    \/ IngestLines
    \/ IngestBin
    \/ IngestPack
    \/ WriterTake
    \/ WriterFlushCheck

SpecFail == InitFail /\ [][NextFail]_vars

InitCrash == Booted /\ faults_left = 0 /\ kills_left = MaxCrashes

NextCrash ==
    \/ IngestLines
    \/ IngestBin
    \/ IngestPack
    \/ WriterTake
    \/ WriterFlushCheck
    \/ Kill
    \/ KillInAppend
    \/ Boot

SpecCrash == InitCrash /\ [][NextCrash]_vars

(***************************************************************************)
(* SpecWal applies PackWal::append_pack to records drawn from WalRecords   *)
(* (one of them with a search field of 65536 bytes, as /ingest.bin accepts *)
(* with its u32 length) and keeps the appends that returned Ok in oklog.   *)
(***************************************************************************)
MaxWalRecs == 3

\* a text of 65536 bytes 0xFF
LongText == [i \in 1..U16_MOD |-> 255]

WalRecords ==
    { PackRec(id, t, << >>, << >>, << >>, << >>, << >>) :
        id \in {U32Of(0), U32Of(1)}, t \in Texts \cup {LongText} }

\* one append_pack call that returns Ok
WalAppend ==
    \E rec \in WalRecords :
      /\ proc = "serving"
      /\ Len(oklog) < MaxWalRecs
      /\ LET res == AppendPackOk(wal, unsynced, rec.id, rec.search, rec.title,
                                  rec.author, rec.genres, rec.url, rec.uri)
         IN  /\ wal' = res.wal
             /\ unsynced' = res.unsynced
      /\ oklog' = Append(oklog, [rec |-> rec, auto |-> FALSE])
      /\ UNCHANGED << proc, queue, builder, next_id, burst, segheap, viewheap,
                      published, rd, enq, faults_left, kills_left, wev, prehits >>

InitWal == Booted /\ faults_left = 0 /\ kills_left = 0

NextWal == WalAppend

SpecWal == InitWal /\ [][NextWal]_vars

(***************************************************************************)
(* SpecGarble is the server with failing appends and a restart, fed by     *)
(* /ingest.bin with two documents: (0, "d") and (0xFFFFFF00, 255 NUL       *)
(* bytes).                                                                 *)
(***************************************************************************)
\* the id 0xFFFFFF00: its little-endian bytes are 00 FF FF FF
IdFFFFFF00 == 8..31

GarbleItems ==
    { IngestItem(WireIdToOption(U32Of(0)), TextD, << >>, << >>, << >>, << >>, << >>),
      IngestItem(WireIdToOption(IdFFFFFF00), TextNul, << >>, << >>, << >>, << >>, << >>) }

IngestBinGarble == \E item \in GarbleItems : Submit(item)

InitGarble == Booted /\ faults_left = MaxFails /\ kills_left = MaxCrashes

NextGarble ==
    \/ IngestBinGarble
    \/ WriterTake
    \/ WriterFlushCheck
    \/ Kill
    \/ Boot

SpecGarble == InitGarble /\ [][NextGarble]_vars

(***************************************************************************)
(* SpecFull is the server with a full ingest channel.  The channel's       *)
(* capacity is scaled down to QueueCapSmall (the handlers do not depend on *)
(* its value) so that a full channel is reached with a few sends.  A       *)
(* handler that finds the channel full waits: ingest_lines and ingest_bin  *)
(* in tx.send_timeout(item, 100 ms), the /ingest.pack arm of handle in     *)
(* tx.send_async(it).await.  TimerTick is the passing of one send timeout. *)
(***************************************************************************)
QueueCapSmall == 2   \* capacity of the channel in SpecFull
MaxSends      == 3   \* sends started over a whole behaviour
MaxWait       == 2   \* timeouts a waiting send is followed through

\* the endpoints whose send carries a timeout (ingest.rs: enqueue)
TimedEndpoints == {"ingest", "ingest.bin"}

\* a handler sends one item: enqueued at once when the channel has room,
\* otherwise the handler waits
IngestSend(r, kind, item) ==
    /\ proc = "serving"
    /\ rd[r].pc \in {"idle", "done"}
    /\ enq < MaxSends
    /\ enq' = enq + 1
    /\ IF Len(queue) < QueueCapSmall
       THEN /\ queue' = Append(queue, item)
            /\ rd' = [rd EXCEPT ![r] = [IdleReader EXCEPT !.pc = "done", !.kind = kind,
                                                          !.item = item]]
       ELSE /\ queue' = queue
            /\ rd' = [rd EXCEPT ![r] = [IdleReader EXCEPT !.pc = "waiting", !.kind = kind,
                                                          !.item = item]]
    /\ UNCHANGED << proc, wal, unsynced, builder, next_id, burst, segheap, viewheap,
                    published, faults_left, kills_left, wev, oklog, prehits >>

SendLines == \E r \in Readers, item \in LineItems : IngestSend(r, "ingest", item)
SendBin   == \E r \in Readers, item \in BinItems : IngestSend(r, "ingest.bin", item)
SendPack  == \E r \in Readers, item \in PackItems : IngestSend(r, "ingest.pack", item)

\* the channel has room again: a waiting send completes
SendWake ==
    \E r \in Readers :
      /\ proc = "serving"
      /\ rd[r].pc = "waiting"
      /\ Len(queue) < QueueCapSmall
      /\ queue' = Append(queue, rd[r].item)
      /\ rd' = [rd EXCEPT ![r].pc = "done"]
      /\ UNCHANGED << proc, wal, unsynced, builder, next_id, burst, segheap, viewheap,
                      published, enq, faults_left, kills_left, wev, oklog, prehits >>

\* one send timeout passes while a handler waits: send_timeout returns
\* Err(Timeout) and the handler returns the error; send_async keeps waiting
TimerTick ==
    \E r \in Readers :
      /\ proc = "serving"
      /\ rd[r].pc = "waiting"
      /\ rd[r].waited < MaxWait
      /\ rd' = [rd EXCEPT ![r] =
                  IF rd[r].kind \in TimedEndpoints
                  THEN [@ EXCEPT !.pc = "done", !.err = TRUE]
                  ELSE [@ EXCEPT !.waited = @ + 1]]
      /\ UNCHANGED << proc, queue, wal, unsynced, builder, next_id, burst, segheap,
                      viewheap, published, enq, faults_left, kills_left, wev, oklog,
                      prehits >>

InitFull == Booted /\ faults_left = 0 /\ kills_left = 0

NextFull ==
    \/ SendLines
    \/ SendBin
    \/ SendPack
    \/ SendWake
    \/ TimerTick
    \/ WriterTake
    \/ WriterFlushCheck

SpecFull == InitFull /\ [][NextFull]_vars

(***************************************************************************)
(* SpecParse and SpecReq: /search requests as the bytes of their body.     *)
(* SpecParse applies parse_query_and_text to bodies of every shape.        *)
(* SpecReq is the live server whose /search handler parses the body and    *)
(* answers 400 or loads the view; its bodies carry no query text.          *)
(***************************************************************************)
\* length of the fixed part of a search request: k, flags, four u64 lanes
QUERY_FIXED_LEN == 36

\* Query256::from_bytes on the fixed part: k u16 LE, flags u16 LE, four
\* u64 LE lanes; bit p of lane i is signature bit 64 * i + p
Query256FromBytes(b) ==
    Query256(U16FromLeBytes(b[1], b[2]), U16FromLeBytes(b[3], b[4]),
             UNION { { 64 * i + p : p \in U64FromLeBytes(SubSeq(b, 5 + 8 * i, 12 + 8 * i)) }
                     : i \in 0..3 })

\* the fixed part a client sends for a query
Query256ToBytes(q) ==
    U16CastToLeBytes(q.k) \o U16CastToLeBytes(q.flags)
      \o U64ToLeBytes({ p \in 0..63 : p \in q.sig })
      \o U64ToLeBytes({ p \in 0..63 : (64 + p) \in q.sig })
      \o U64ToLeBytes({ p \in 0..63 : (128 + p) \in q.sig })
      \o U64ToLeBytes({ p \in 0..63 : (192 + p) \in q.sig })

\* a parser that takes whatever follows the qlen field as the text
parse_query_unchecked_qlen(buf) ==
    IF Len(buf) < QUERY_FIXED_LEN
    THEN [ok |-> FALSE, q |-> Query256(0, 0, {}), text |-> << >>]
    ELSE [ok |-> TRUE, q |-> Query256FromBytes(SubSeq(buf, 1, QUERY_FIXED_LEN)),
          text |-> SubSeq(buf, QUERY_FIXED_LEN + 3, Len(buf))]

\* parse_query_and_text: Err, or the query and the text that follows it
parse_query_and_text(buf) ==
    LET q    == Query256FromBytes(SubSeq(buf, 1, QUERY_FIXED_LEN))
        qlen == U16FromLeBytes(buf[QUERY_FIXED_LEN + 1], buf[QUERY_FIXED_LEN + 2])
        bad  == [ok |-> FALSE, q |-> Query256(0, 0, {}), text |-> << >>]
    IN  IF Len(buf) < QUERY_FIXED_LEN THEN bad
        ELSE IF Len(buf) = QUERY_FIXED_LEN THEN [ok |-> TRUE, q |-> q, text |-> << >>]
        ELSE IF Len(buf) < QUERY_FIXED_LEN + 2 THEN bad
        ELSE IF Len(buf) < QUERY_FIXED_LEN + 2 + qlen THEN bad
        ELSE [ok |-> TRUE, q |-> q,
              text |-> SubSeq(buf, QUERY_FIXED_LEN + 3, QUERY_FIXED_LEN + 2 + qlen)]

MaxK == 2

FixedParts(flagset) ==
    { Query256ToBytes(Query256(k, f, SigOf(t))) : k \in 0..MaxK, f \in flagset, t \in Texts }

\* the bodies of SpecParse.  What follows the fixed part: nothing, half a
\* qlen, qlen = 0, a qlen with too few bytes, a qlen with its bytes, bytes
\* after the text, and a text byte that is not UTF-8; and bodies cut short
\* of the fixed part.
ParseBodies ==
    LET Tails == { << >>, << 0 >>, << 0, 0 >>, << 1, 0 >>, << 1, 0, 100 >>,
                   << 2, 0, 100 >>, << 0, 0, 100 >>, << 1, 0, 100, 119 >>,
                   << 1, 0, 255 >> }
        ShortBodies == { SubSeq(b, 1, n) : b \in FixedParts({0}),
                                           n \in {0, 4, QUERY_FIXED_LEN - 1} }
    IN  { b \o t : b \in FixedParts({0, 2}), t \in Tails } \cup ShortBodies

\* the bodies of SpecReq: every fixed part alone, one body cut short and
\* one whose qlen promises a byte that is not there
ReqBodies ==
    FixedParts({0})
      \cup { SubSeq(Query256ToBytes(Query256(1, 0, SigOf(TextD))), 1, QUERY_FIXED_LEN - 1),
             Query256ToBytes(Query256(1, 0, SigOf(TextW))) \o << 1, 0 >> }

\* the parse of every body of the model, computed once
ParseTable == [b \in ParseBodies \cup ReqBodies |-> parse_query_and_text(b)]
ParseOf(b) == IF b \in DOMAIN ParseTable THEN ParseTable[b] ELSE parse_query_and_text(b)

\* a rejection that also drops what waits in the ingest queue
BadRequestClearingQueue(r, body) ==
    /\ rd' = [rd EXCEPT ![r] = [IdleReader EXCEPT !.pc = "done", !.kind = "search",
                                                  !.body = body, !.status = 400]]
    /\ queue' = << >>
    /\ UNCHANGED << proc, wal, unsynced, builder, next_id, burst, segheap,
                    viewheap, published, enq, faults_left, kills_left, wev, oklog, prehits >>

\* the 400 answer of the /search arm, no view loaded
BadRequest(r, body) ==
    /\ rd' = [rd EXCEPT ![r] = [IdleReader EXCEPT !.pc = "done", !.kind = "search",
                                                  !.body = body, !.status = 400]]
    /\ UNCHANGED << proc, queue, wal, unsynced, builder, next_id, burst, segheap,
                    viewheap, published, enq, faults_left, kills_left, wev, oklog, prehits >>

\* the /search arm up to app.view.load()
SearchRequest(r, body) ==
    LET p == ParseOf(body)
    IN  /\ proc = "serving"
        /\ rd[r].pc \in {"idle", "done"}
        /\ IF p.ok
           THEN /\ rd' = [rd EXCEPT ![r] =
                            [IdleReader EXCEPT !.pc = "loaded", !.kind = "search",
                                 !.view = published, !.q = p.q, !.qtext = p.text,
                                 !.body = body,
                                 !.segs0 = Deref(segheap, viewheap[published]),
                                 !.total0 = total_docs(segheap, viewheap[published])]]
                /\ UNCHANGED << proc, queue, wal, unsynced, builder, next_id, burst,
                                segheap, viewheap, published, enq, faults_left,
                                kills_left, wev, oklog, prehits >>
           ELSE BadRequest(r, body)

SearchParse == \E r \in Readers, body \in ParseBodies :
                   /\ rd[r].pc = "idle"
                   /\ SearchRequest(r, body)

SearchReq == \E r \in Readers, body \in ReqBodies : SearchRequest(r, body)

SpecParse == Init /\ [][SearchParse]_vars

NextReq ==
    \/ IngestLines
    \/ IngestBin
    \/ IngestPack
    \/ WriterTake
    \/ WriterFlushCheck
    \/ SearchReq
    \/ Respond

SpecReq == Init /\ [][NextReq]_vars

(***************************************************************************)
(* accum.rs: the per-thread accumulator, an open-addressing table of       *)
(* cap slots.  A score is a small integer, 0 standing for 0.0.  SpecAcc    *)
(* drives one thread's accumulator through begin, inc, set_score,          *)
(* update_max and the scoring loop's inc-then-write, on a table of AccCap  *)
(* slots that is new or has lived through almost 2^32 epochs.              *)
(***************************************************************************)
\* the capacity is a power of two (with_capacity_pow2 asserts it)
AccCapLog2 == 1
AccCap == Pow2(AccCapLog2)

\* u32::MAX, the key of a slot never written; the ids of the model are
\* smaller
KEY_EMPTY == -1

\* Accum::with_capacity_pow2
with_capacity_pow2(cap) ==
    [cap |-> cap, keys |-> [i \in 1..cap |-> KEY_EMPTY], vals |-> [i \in 1..cap |-> 0],
     tag |-> [i \in 1..cap |-> {}], epoch |-> {0}, touched |-> << >>]

\* a begin that wraps the epoch to 1 and keeps the slots' tags
begin_keeping_tags(a) ==
    LET e == U32WrappingInc(a.epoch)
    IN  [a EXCEPT !.epoch = IF e = {} THEN {0} ELSE e, !.touched = << >>]

\* Accum::begin
begin(a) ==
    LET e == U32WrappingInc(a.epoch)
    IN  IF e = {}
        THEN [a EXCEPT !.tag = [i \in 1..a.cap |-> {}], !.epoch = {0}, !.touched = << >>]
        ELSE [a EXCEPT !.epoch = e, !.touched = << >>]

RECURSIVE IncProbe(_, _, _, _)
\* the loop of Accum::inc from slot i after probes probes
IncProbe(a, id, i, probes) ==
    IF probes >= a.cap THEN [ret |-> FALSE, acc |-> a]
    ELSE IF a.tag[i + 1] # a.epoch
         THEN [ret |-> TRUE,
               acc |-> [a EXCEPT !.tag[i + 1] = a.epoch, !.keys[i + 1] = id,
                                 !.vals[i + 1] = 0, !.touched = Append(@, id)]]
         ELSE IF a.keys[i + 1] = id THEN [ret |-> FALSE, acc |-> a]
              ELSE IncProbe(a, id, (i + 1) % a.cap, probes + 1)

\* an inc that claims the last slot of another epoch on the probe path
\* instead of the first
inc_last_free(a, id) ==
    LET free == { n \in 0..(a.cap - 1) : a.tag[((id + n) % a.cap) + 1] # a.epoch }
        n0   == CHOOSE n \in free : \A m \in free : n >= m
        i    == (id + n0) % a.cap
    IN  IF free = {} \/ \E j \in 1..a.cap : a.tag[j] = a.epoch /\ a.keys[j] = id
        THEN [ret |-> FALSE, acc |-> a]
        ELSE [ret |-> TRUE,
              acc |-> [a EXCEPT !.tag[i + 1] = a.epoch, !.keys[i + 1] = id,
                                !.vals[i + 1] = 0, !.touched = Append(@, id)]]

\* an inc that takes the first slot of another epoch without looking for
\* the id in the slots of this one
inc_without_lookup(a, id) ==
    LET free == { n \in 0..(a.cap - 1) : a.tag[((id + n) % a.cap) + 1] # a.epoch }
        n0   == CHOOSE n \in free : \A m \in free : n <= m
        i    == (id + n0) % a.cap
    IN  IF free = {} THEN [ret |-> FALSE, acc |-> a]
        ELSE [ret |-> TRUE,
              acc |-> [a EXCEPT !.tag[i + 1] = a.epoch, !.keys[i + 1] = id,
                                !.vals[i + 1] = 0, !.touched = Append(@, id)]]

\* Accum::inc: i = id & mask, mask = cap - 1
inc(a, id) == IncProbe(a, id, id % a.cap, 0)

NoSlot == -1

RECURSIVE KeySlot(_, _, _, _)
\* the loop of set_score, update_max and get_score: the first slot from i
\* whose key is id.  The loop has no other exit: when no slot holds id it
\* walks the table for ever, which NoSlot stands for.
KeySlot(a, id, i, n) ==
    IF n >= a.cap THEN NoSlot
    ELSE IF a.keys[i + 1] = id THEN i
         ELSE KeySlot(a, id, (i + 1) % a.cap, n + 1)

\* Accum::set_score
set_score(a, id, score) ==
    LET i == KeySlot(a, id, id % a.cap, 0)
    IN  IF i = NoSlot THEN [spins |-> TRUE, acc |-> a]
        ELSE [spins |-> FALSE, acc |-> [a EXCEPT !.vals[i + 1] = score]]

\* Accum::update_max
update_max(a, id, score) ==
    LET i == KeySlot(a, id, id % a.cap, 0)
    IN  IF i = NoSlot THEN [spins |-> TRUE, acc |-> a]
        ELSE [spins |-> FALSE,
              acc |-> IF score > a.vals[i + 1] THEN [a EXCEPT !.vals[i + 1] = score] ELSE a]

\* Accum::get_score
get_score(a, id) ==
    LET i == KeySlot(a, id, id % a.cap, 0)
    IN  IF i = NoSlot THEN [spins |-> TRUE, score |-> 0]
        ELSE [spins |-> FALSE, score |-> a.vals[i + 1]]

MaxBegins == 3
AccIds == 0..AccCap
AccScores == {1, 2}

\* the accumulator of a thread that touched ids in its first epoch and has
\* called begin() 2^32 - 3 times since without a touch: epoch = u32::MAX - 1
AgedAccum(ids) ==
    LET a1 == IF ids = << >> THEN with_capacity_pow2(AccCap)
              ELSE set_score(inc(with_capacity_pow2(AccCap), ids[1]).acc, ids[1], 2).acc
        a2 == IF Len(ids) < 2 THEN a1
              ELSE set_score(inc(a1, ids[2]).acc, ids[2], 1).acc
    IN  [a2 EXCEPT !.epoch = U32_MAX \ {0}, !.touched = << >>]

\* one call on the thread's accumulator, with what the call returned
AccCall(r, op, id, score, ret, a, spins) ==
    /\ rd[r].pc = "idle"
    /\ rd' = [rd EXCEPT ![r] =
                [@ EXCEPT !.pc = IF spins THEN "spinning" ELSE "idle",
                          !.acc = a,
                          !.last = [op |-> op, id |-> id, score |-> score, ret |-> ret,
                                    first |-> \A j \in 1..Len(rd[r].calls) : rd[r].calls[j] # id],
                          !.calls = IF op = "begin" THEN << >>
                                    ELSE IF op \in {"inc", "score"}
                                            /\ \A j \in 1..Len(@) : @[j] # id
                                         THEN Append(@, id) ELSE @,
                          !.begins = IF op = "begin" THEN @ + 1 ELSE @]]
    /\ UNCHANGED << proc, queue, wal, unsynced, builder, next_id, burst, segheap,
                    viewheap, published, enq, faults_left, kills_left, wev, oklog, prehits >>

AccBegin ==
    \E r \in Readers :
      /\ rd[r].begins < MaxBegins
      /\ AccCall(r, "begin", 0, 0, FALSE, begin(rd[r].acc), FALSE)

AccInc ==
    \E r \in Readers, id \in AccIds :
      LET res == inc(rd[r].acc, id)
      IN  AccCall(r, "inc", id, 0, res.ret, res.acc, FALSE)

AccSetScore ==
    \E r \in Readers, id \in AccIds, s \in AccScores :
      LET res == set_score(rd[r].acc, id, s)
      IN  AccCall(r, "set_score", id, s, FALSE, res.acc, res.spins)

AccUpdateMax ==
    \E r \in Readers, id \in AccIds, s \in AccScores :
      LET res == update_max(rd[r].acc, id, s)
      IN  AccCall(r, "update_max", id, s, FALSE, res.acc, res.spins)

\* search_into_v2, one candidate of the scoring loop:
\* if acc.inc(row) { acc.set_score(row, s) } else { acc.update_max(row, s) }
ScoreCandidate ==
    \E r \in Readers, id \in AccIds, s \in AccScores :
      LET res == inc(rd[r].acc, id)
          wr  == IF res.ret THEN set_score(res.acc, id, s) ELSE update_max(res.acc, id, s)
      IN  AccCall(r, "score", id, s, res.ret, wr.acc, wr.spins)

InitAcc ==
    /\ proc = "serving" /\ queue = << >> /\ wal = << >> /\ unsynced = 0
    /\ builder = NewBuilder /\ next_id = {} /\ burst = 0
    /\ segheap = << >> /\ viewheap = << << >> >> /\ published = 1
    /\ enq = 0 /\ wev = NoEvent /\ oklog = << >> /\ prehits = [q \in Queries |-> {}]
    /\ faults_left = 0 /\ kills_left = 0
    /\ \E a \in {with_capacity_pow2(AccCap)}
                  \cup { AgedAccum(ids) : ids \in { << >>, << 0 >>, << 0, AccCap >>, << 1 >> } } :
          rd = [r \in Readers |->
                  [IdleReader EXCEPT !.acc = a, !.last = [op |-> "new", id |-> 0, score |-> 0,
                                                          ret |-> FALSE, first |-> FALSE]]]

NextAcc ==
    \/ AccBegin
    \/ AccInc
    \/ AccSetScore
    \/ AccUpdateMax
    \/ ScoreCandidate

SpecAcc == InitAcc /\ [][NextAcc]_vars

(***************************************************************************)
(* SpecScene: the index and the query engine on documents with metadata.   *)
(* Documents are added to the builder, the builder is sealed and the       *)
(* segment published as builder_loop does, and text-bearing queries run    *)
(* on the published view.                                                  *)
(***************************************************************************)
MaxSceneAdds == 3

SceneItems ==
    { IngestItem(Some(U32Of(1)), TextAlphaBeta, << >>, << >>, << >>, << >>, << >>),
      IngestItem(Some(U32Of(2)), TextAlphaGamma, << >>, << >>, << >>, << >>, << >>),
      IngestItem(Some(U32Of(1)), TextAlphaBeta, TextAlphaBeta, TextBeta, << >>, << >>, << >>),
      IngestItem(Some(U32Of(2)), TextAlphaGamma, TextAlphaGamma, << >>, << >>, << >>, << >>),
      IngestItem(Some(U32Of(3)), TextW, TextBeta, << >>, << >>, << >>, << >>),
      IngestItem(Some(U32Of(4)), TextAlpha, << >>, << >>, << >>, << >>, << >>),
      IngestItem(Some(U32Of(5)), TextAlphaBetaGamma, << >>, << >>, << >>, << >>, << >>) }

TextMarks == << 33, 32, 63 >>    \* "! ?": a query text without a token

SceneQueries ==
    { [q |-> Query256(2, 0, SigOf(TextBeta)), text |-> TextBeta],
      [q |-> Query256(2, 0, SigOf(TextAlphaB)), text |-> TextAlphaB],
      [q |-> Query256(2, 0, SigOf(TextAlphaBeta)), text |-> TextAlphaBeta],
      [q |-> Query256(2, 0, {}), text |-> TextBeta],
      [q |-> Query256(2, 0, SigOf(TextAlpha)), text |-> << >>],
      [q |-> Query256(1, 0, SigOf(TextAlpha)), text |-> << >>],
      [q |-> Query256(2, 0, SigOf(TextAlphaBetaGamma)), text |-> << >>],
      [q |-> Query256(2, 0, SigOf(TextBeta)), text |-> TextMarks],
      [q |-> Query256(2, 0, SigOf(TextAlphaBetaGamma)), text |-> TextBeta] }

\* IndexBuilder::add of one document (the index is built before it is
\* queried: search is a function of the view and the query)
SceneAdd ==
    /\ enq < MaxSceneAdds
    /\ \A r \in Readers : rd[r].pc = "idle"
    /\ \E item \in SceneItems : builder' = BuilderAdd(builder, item)
    /\ enq' = enq + 1
    /\ UNCHANGED << proc, queue, wal, unsynced, next_id, burst, segheap, viewheap,
                    published, rd, faults_left, kills_left, wev, oklog, prehits >>

\* builder_loop's flush: seal the builder and publish the view with the new
\* segment
SceneSeal ==
    /\ BuilderLen(builder) > 0
    /\ \A r \in Readers : rd[r].pc = "idle"
    /\ LET seg    == Len(segheap) + 1
           next   == NextSegments(viewheap[published], seg)
           stored == StoreView(viewheap, next)
       IN  /\ segheap' = SegmentsAfterSeal(segheap, builder)
           /\ builder' = BuilderAfterSeal(builder)
           /\ viewheap' = stored.views
           /\ published' = stored.published
    /\ UNCHANGED << proc, queue, wal, unsynced, next_id, burst, rd, enq, faults_left,
                    kills_left, wev, oklog, prehits >>

\* the search handler on the published view: with_query_text(qtext, || view.search(q))
SceneSearch ==
    \E r \in Readers : \E p \in SceneQueries :
      /\ \E segs \in { Deref(segheap, viewheap[published]) } :
         \E res \in { with_query_text(p.text, segs, p.q) } :
             rd' = [rd EXCEPT ![r] =
                      [IdleReader EXCEPT !.pc = "done", !.kind = "search",
                                         !.view = published, !.q = p.q, !.qtext = p.text,
                                         !.segs0 = segs, !.panic = res.panic,
                                         !.status = IF res.panic THEN 0 ELSE 200,
                                         !.hits = res.hits, !.ids = HitIds(segs, res.hits)]]
      /\ UNCHANGED << proc, queue, wal, unsynced, builder, next_id, burst, segheap,
                      viewheap, published, enq, faults_left, kills_left, wev, oklog, prehits >>

BigRows == 520

\* the documents of a bulk load: the words in the title, the search text
\* alternating; the last document also has the author "alpha"
BigItem(r) ==
    IF r = BigRows - 1
    THEN IngestItem(None, TextAlphaBeta, TextBeta, TextAlpha, << >>, << >>, << >>)
    ELSE IngestItem(None, IF r % 2 = 0 THEN TextAlphaBeta ELSE TextAlphaGamma,
                    TextBeta, << >>, << >>, << >>, << >>)

\* IndexBuilder::add of BigItem(0), BigItem(1), ... to a new builder
BigBuilder ==
    Iterate(LAMBDA b : BuilderAdd(b, BigItem(BuilderLen(b))), NewBuilder, BigRows)

\* builder_loop on a burst of BigRows documents, sealed into one segment
\* (flush_docs above INTERSECT_CAP) and published
SceneBulk ==
    /\ enq = 0 /\ segheap = << >> /\ BuilderLen(builder) = 0
    /\ \A r \in Readers : rd[r].pc = "idle"
    /\ \E b \in { BigBuilder } :
         LET next   == NextSegments(viewheap[published], 1)
             stored == StoreView(viewheap, next)
         IN  /\ segheap' = SegmentsAfterSeal(segheap, b)
             /\ viewheap' = stored.views
             /\ published' = stored.published
    /\ enq' = MaxSceneAdds
    /\ UNCHANGED << proc, queue, wal, unsynced, builder, next_id, burst, rd, faults_left,
                    kills_left, wev, oklog, prehits >>

NextScene == SceneAdd \/ SceneSeal \/ SceneBulk \/ SceneSearch

SpecScene == Init /\ [][NextScene]_vars

(***************************************************************************)
(* SpecLive is the ingest side of the live server with a writer task that  *)
(* keeps running:                                                          *)
(* builder_loop never blocks, so an item in the queue is taken (weak        *)
(* fairness of WriterTake), and because last_flush.elapsed() grows while    *)
(* nothing is flushed, a flush check to which the timer has expired comes   *)
(* as long as checks keep being made (weak fairness of FlushDue).           *)
(***************************************************************************)
\* a flush check at which last_flush.elapsed() >= flush_ms
FlushDue == WriterFlushCheck /\ wev'.timed_out

NextLive == IngestLines \/ IngestBin \/ IngestPack \/ WriterTake \/ WriterFlushCheck

SpecLive == Init /\ [][NextLive]_vars /\ WF_vars(WriterTake) /\ WF_vars(FlushDue)

(***************************************************************************)
(* SpecWide: IndexView::search applied to views of few and of very many    *)
(* segments.  WideView(n) is the view builder_loop has published after n   *)
(* flushes of one document each (a flush pushes one segment and nothing    *)
(* ever merges or drops segments): the same document "d" before every      *)
(* flush but the last, "w" or two documents before the last.  The reader   *)
(* keeps the numbers of segments and of documents of the view it searched, *)
(* not a copy of the view.                                                 *)
(***************************************************************************)
WideSmall == 15

WideItemD == IngestItem(Some(U32Of(1)), TextD, << >>, << >>, << >>, << >>, << >>)
WideItemW == IngestItem(Some(U32Of(2)), TextW, << >>, << >>, << >>, << >>, << >>)
WideItemE == IngestItem(Some(U32Of(3)), TextD, << >>, << >>, << >>, << >>, << >>)

WideSegD == SealedSegment(BuilderAdd(NewBuilder, WideItemD))
WideSegW == SealedSegment(BuilderAdd(NewBuilder, WideItemW))
WideSegEW == SealedSegment(BuilderAdd(BuilderAdd(NewBuilder, WideItemE), WideItemW))

\* the view after n flushes: n - 1 segments of one document, then a last
\* segment of `last` documents, 1 or 2
WideView(n, last) ==
    [i \in 1..n |-> IF i < n THEN WideSegD ELSE IF last = 1 THEN WideSegW ELSE WideSegEW]

\* the searches: every query on the views of up to WideSmall segments, the
\* query for "w" on the views of 2^16 and of 2^16 + 1 segments
WideInputs ==
    { [n |-> n, last |-> last, q |-> Query256(k, 0, SigOf(t))] :
        n \in 1..WideSmall, last \in 1..2, k \in 1..2, t \in {TextD, TextW} }
    \cup { [n |-> U16_MOD + p[1], last |-> p[2], q |-> Query256(1, 0, SigOf(TextW))] :
             p \in { << 0, 1 >>, << 1, 1 >>, << 1, 2 >> } }

\* wire::encode_hits_binary, the ids it writes: view.segments[h.seg] and
\* seg.meta[row] are bounds-checked, an index out of range panics
encode_hits_binary(segs, hits) ==
    IF \A i \in 1..Len(hits) :
          /\ hits[i].seg + 1 \in DOMAIN segs
          /\ hits[i].row < Len(segs[hits[i].seg + 1].meta)
    THEN [panic |-> FALSE, ids |-> HitIds(segs, hits)]
    ELSE [panic |-> TRUE, ids |-> << >>]

\* the search handler on the view of in.n segments: view.search(q), then
\* encode_hits_binary(&view, &hits, ..)
WideSearch ==
    \E r \in Readers : \E in \in WideInputs :
      /\ rd[r].pc = "idle"
      /\ \E segs \in { WideView(in.n, in.last) } :
         \E res \in { with_query_text(<< >>, segs, in.q) } :
         \E enc \in { encode_hits_binary(segs, res.hits) } :
             rd' = [rd EXCEPT ![r] =
                      [IdleReader EXCEPT !.pc = "done", !.kind = "search", !.q = in.q,
                                         !.segments = in.n,
                                         !.total0 = in.n - 1 + in.last,
                                         !.panic = res.panic \/ enc.panic,
                                         !.status = IF res.panic \/ enc.panic THEN 0 ELSE 200,
                                         !.hits = res.hits, !.ids = enc.ids]]
      /\ UNCHANGED << proc, queue, wal, unsynced, builder, next_id, burst, segheap,
                      viewheap, published, enq, faults_left, kills_left, wev, oklog, prehits >>

NextWide == WideSearch

SpecWide == Init /\ [][NextWide]_vars

(***************************************************************************)
(* Properties                                                              *)
(***************************************************************************)
\* a step of the writer's flush check
FlushCheckStep == wev' # wev /\ wev'.kind = "check"

\* C1: snapshot isolation.  While a handler holds the view it loaded, the
\* segments behind that reference and their total_docs() are what they were
\* at the load, whatever the writer has published since; the /stats answer
\* is computed from them.
C1_SnapshotIsolation ==
    \A r \in Readers :
      /\ rd[r].pc = "loaded" =>
           /\ Deref(segheap, viewheap[rd[r].view]) = rd[r].segs0
           /\ total_docs(segheap, viewheap[rd[r].view]) = rd[r].total0
      /\ (rd[r].pc = "done" /\ rd[r].kind = "stats") =>
           /\ rd[r].segments = Len(rd[r].segs0)
           /\ rd[r].docs_total = rd[r].total0

\* a handler holds a non-empty view while the writer has published twice
C1_Witness ==
    \E r \in Readers :
      /\ rd[r].pc = "loaded"
      /\ rd[r].view + 2 <= published
      /\ Len(viewheap[published]) = 2

\* C2: published views are append-only.  Every change of the published view
\* is a step of the writer's flush check; the new view is the old segment
\* list followed by the one segment just sealed from the builder, the old
\* segments are untouched, and total_docs() does not decrease.
C2_AppendOnly ==
    [][ LET old == viewheap[published]
            new == viewheap'[published']
        IN  (published' # published \/ new # old) =>
              /\ FlushCheckStep
              /\ rd' = rd /\ queue' = queue
              /\ Len(new) = Len(old) + 1
              /\ SubSeq(new, 1, Len(old)) = old
              /\ new[Len(new)] = Len(segheap) + 1
              /\ Len(segheap') = Len(segheap) + 1
              /\ segheap'[Len(segheap')] = SealedSegment(builder)
              /\ \A h \in 1..Len(segheap) : segheap'[h] = segheap[h]
              /\ total_docs(segheap', new) >= total_docs(segheap, old)
      ]_vars

\* the writer has published twice
C2_Witness == Len(viewheap[published]) = 2 /\ published = 3

\* C10 as stated: after a drain burst, since_seal >= flush_docs or the timer
\* alone makes the writer seal and publish
C10_FlushAsStated ==
    [][ (FlushCheckStep /\ (wev'.since >= FlushDocs \/ wev'.timed_out))
          => published' # published ]_vars

\* C10 amended: the writer seals and publishes exactly when the builder
\* holds at least one document added since the last seal and (since_seal >=
\* flush_docs or the timer has run out); the new view is a copy of the
\* current segment list with the sealed segment appended, and the builder
\* is left empty.  Otherwise the check changes nothing.
C10_FlushPolicy ==
    [][ FlushCheckStep =>
          /\ wev'.since = docs_since_seal(builder)
          /\ IF wev'.since > 0 /\ (wev'.since >= FlushDocs \/ wev'.timed_out)
             THEN /\ published' # published
                  /\ viewheap'[published'] = Append(viewheap[published], Len(segheap) + 1)
                  /\ segheap' = Append(segheap, SealedSegment(builder))
                  /\ viewheap[published] = viewheap'[published]
                  /\ docs_since_seal(builder') = 0 /\ BuilderLen(builder') = 0
             ELSE UNCHANGED << published, viewheap, segheap, builder >>
      ]_vars

\* the timer alone has flushed a builder below the document threshold
C10_Witness ==
    /\ wev.kind = "check" /\ wev.timed_out /\ wev.since > 0 /\ wev.since < FlushDocs
    /\ published > 1

\* the records of the appends that returned Ok, in order
OkRecs == [i \in 1..Len(oklog) |-> oklog[i].rec]

RECURSIVE IsSubseq(_, _)
\* a is b with some elements left out
IsSubseq(a, b) ==
    IF a = << >> THEN TRUE
    ELSE IF b = << >> THEN FALSE
    ELSE IF Head(a) = Head(b) THEN IsSubseq(Tail(a), Tail(b))
    ELSE IsSubseq(a, Tail(b))

\* a step of the drain loop that receives an item
TakeStep ==
    proc = "serving" /\ proc' = "serving" /\ queue # << >> /\ queue' = Tail(queue)

\* C3: recovery tolerates a torn tail.  When the process was killed inside
\* an append, at any byte of the record, boot replay ends at the short read
\* without an error, the initial view holds every complete record before
\* it, and the server is serving.
C3_TornTailTolerated ==
    (wev.kind = "boot" /\ wev.torn) =>
        /\ wev.end = "eof"
        /\ proc = "serving"
        /\ Deref(segheap, viewheap[published]) = ReplaySegments(OkRecs, ReplaySegDocs)

\* C4: WAL round trip.  After any sequence of append_pack calls that each
\* returned Ok, the reader yields exactly those records, in order, and
\* then the end of the log.
C4_WalRoundTrip == ReadLog(wal, 0) = [recs |-> OkRecs, end |-> "eof"]

\* the documents ingested: the distinct caller-supplied ids, and one per
\* item the server assigned an id to
DocsIngested ==
    Cardinality({ oklog[i].rec.id : i \in { j \in 1..Len(oklog) : ~oklog[j].auto } })
      + Cardinality({ i \in 1..Len(oklog) : oklog[i].auto })

\* C5: recovery keeps the document count.  The initial view rebuilt from
\* the WAL after a kill reports at least as many documents as were
\* ingested.
C5_RecoveryKeepsCount ==
    (wev.kind = "boot" /\ proc = "serving") =>
        total_docs(segheap, viewheap[published]) >= DocsIngested

\* C6: recovery preserves query results.  An id a query returned from the
\* view published before the kill is returned by the same query on the
\* view rebuilt from the WAL.
C6_RecoveryPreservesResults ==
    (wev.kind = "boot" /\ proc = "serving") =>
        \A q \in Queries : prehits[q] \subseteq PublishedIds(q)

\* C7: WAL before index, and skip on error.  On every item the writer
\* takes: the builder changes only after append_pack returned Ok and the
\* whole record is in the log; when append_pack fails, the builder, the
\* segments and the published view are untouched, the item is gone from
\* the queue and the writer goes on; the rows of this run never outnumber
\* the appends that returned Ok.
C7_WalBeforeIndex ==
    [][ TakeStep =>
          LET it == Head(queue)
          IN  /\ wev'.kind = "take"
              /\ builder' # builder =>
                   /\ wev'.outcome = "ok"
                   /\ wal' = wal \o RecordBytes(IF it.id.some THEN it.id.v ELSE next_id,
                                                it.search, it.title, it.author,
                                                it.genres, it.url, it.uri)
              /\ wev'.outcome = "ok" => BuilderLen(builder') >= 1
              /\ wev'.outcome = "failed" =>
                   /\ UNCHANGED << builder, segheap, viewheap, published, oklog >>
                   /\ proc' = "serving"
              /\ total_docs(segheap', viewheap'[published']) + BuilderLen(builder')
                   <= Len(oklog')
      ]_vars

\* an append failed with part of the record written, and the writer took
\* the next item and indexed it
C7_Witness ==
    /\ wev.kind = "take" /\ wev.outcome = "ok"
    /\ faults_left < MaxFails
    /\ Len(oklog) = 1 /\ BuilderLen(builder) = 1
    /\ Len(wal) > Len(RecordBytes(oklog[1].rec.id, oklog[1].rec.search, << >>, << >>,
                                  << >>, << >>, << >>))

\* C8: failure isolation in the log.  Whatever appends failed, the reader
\* still yields every record whose append returned Ok, intact and in order.
C8_FailureIsolation == IsSubseq(OkRecs, ReadLog(wal, 0).recs)

\* the ids of the rows of a builder or of a segment
RowIds(meta) == { meta[i].id : i \in 1..Len(meta) }

\* C9: id assignment.  On every item the writer takes: an item without an
\* id gets the counter's value and the counter moves on by one, an item
\* with an id keeps it and the counter stays; an item whose id is u32::MAX
\* leaves the log and the builder untouched, every other item is appended
\* to the log with its id; and no record of the log and no row of a
\* segment or of the builder carries the id u32::MAX.
C9_IdAssignment ==
    /\ [][ TakeStep =>
             LET it  == Head(queue)
                 gid == IF it.id.some THEN it.id.v ELSE next_id
             IN  /\ wev'.gid = gid
                 /\ next_id' = IF it.id.some THEN next_id ELSE U32WrappingInc(next_id)
                 /\ IF gid = U32_MAX
                    THEN UNCHANGED << wal, builder, oklog >>
                    ELSE \E n \in 0..RecordSize(it.search, it.title, it.author,
                                                it.genres, it.url, it.uri) :
                           wal' = wal \o SubSeq(RecordBytes(gid, it.search, it.title,
                                                            it.author, it.genres,
                                                            it.url, it.uri), 1, n)
         ]_vars
    /\ [](/\ \A i \in 1..Len(ReadLog(wal, 0).recs) : ReadLog(wal, 0).recs[i].id # U32_MAX
          /\ \A h \in 1..Len(segheap) : U32_MAX \notin RowIds(segheap[h].meta)
          /\ U32_MAX \notin RowIds(builder.meta))

\* after the restart a segment of the rebuilt view holds a row whose id is
\* u32::MAX
C9_SentinelRowAfterRestart ==
    /\ wev.kind = "boot" /\ proc = "serving"
    /\ \E h \in 1..Len(segheap) : U32_MAX \in RowIds(segheap[h].meta)

\* C11: queue-full backpressure is time-bounded.  A send that found the
\* channel full, on any ingest endpoint, is over (enqueued or rejected) by
\* the time one send timeout has passed: no handler is still waiting for
\* room after it.
C11_BoundedBackpressure ==
    \A r \in Readers : rd[r].pc = "waiting" => rd[r].waited = 0

\* a handler loads the published view
LoadStep(r) == rd[r].pc # "loaded" /\ rd'[r].pc = "loaded"

\* a search handler answers
SearchRespondStep(r) ==
    rd[r].pc = "loaded" /\ rd[r].kind = "search" /\ rd'[r].pc = "done"

\* C12: a query submitted after the publish of a segment observes it, with
\* every row the builder held when it was sealed.  The segment a flush
\* check publishes holds the builder's rows, all of them; the view a
\* handler loads is the sequence of all segments published so far; the
\* answer is computed on those segments, and a row whose signature is the
\* query's is found.
C12_PublishedIsObserved ==
    [][ /\ (FlushCheckStep /\ published' # published) =>
              LET seg == segheap'[Len(segheap')]
              IN  /\ seg.s = builder.signatures_aos
                  /\ seg.meta = builder.meta
                  /\ seg.pop = builder.pop
                  /\ SegLen(seg) = BuilderLen(builder)
        /\ \A r \in Readers :
              /\ LoadStep(r) =>
                   /\ rd'[r].segs0 = segheap
                   /\ rd'[r].view = published
              /\ SearchRespondStep(r) =>
                   /\ rd'[r].hits = ViewSearch(rd[r].segs0, rd[r].q).hits
                   /\ (\E i \in 1..Len(rd[r].segs0) : \E j \in 1..Len(rd[r].segs0[i].s) :
                          rd[r].segs0[i].s[j] = rd[r].q.sig) => rd'[r].ids # << >>
      ]_vars

\* a search answered from the view of the second publish, with a hit
C12_Witness ==
    \E r \in Readers :
      /\ rd[r].pc = "done" /\ rd[r].kind = "search"
      /\ rd[r].view = 3 /\ Len(rd[r].segs0) = 2
      /\ rd[r].ids # << >>

\* C13: the segment lifecycle is one-way and only sealed segments are
\* reachable from a view.  No step changes or removes a sealed segment;
\* every view refers to sealed segments only; a step that adds to the
\* builder leaves segments and views alone; and every hit of an answer is a
\* row of a sealed segment of the view the handler loaded.
C13_SealedOnly ==
    [][ /\ \A h \in 1..Len(segheap) :
              h <= Len(segheap') /\ segheap'[h] = segheap[h]
        /\ \A v \in 1..Len(viewheap') : \A i \in 1..Len(viewheap'[v]) :
              viewheap'[v][i] \in 1..Len(segheap')
        /\ TakeStep => UNCHANGED << segheap, viewheap, published >>
        /\ \A r \in Readers : SearchRespondStep(r) =>
              \A i \in 1..Len(rd'[r].hits) :
                 /\ rd'[r].hits[i].seg < Len(rd[r].segs0)
                 /\ rd'[r].hits[i].row < SegLen(rd[r].segs0[rd'[r].hits[i].seg + 1])
      ]_vars

\* a segment is published, the builder holds a newer row, and a query for
\* that row's signature got no hit
C13_Witness ==
    \E r \in Readers :
      /\ published >= 2 /\ BuilderLen(builder) = 1
      /\ rd[r].pc = "done" /\ rd[r].kind = "search" /\ rd[r].view = published
      /\ rd[r].q.sig = builder.signatures_aos[1]
      /\ rd[r].hits = << >>

\* C14: every answered search returns at most k hits and completes
\* normally (no panic), for every k of the request.
C14_AtMostK ==
    \A r \in Readers :
      (rd[r].kind = "search" /\ rd[r].pc = "done" /\ rd[r].status # 400)
        => (~rd[r].panic /\ Len(rd[r].hits) <= rd[r].q.k)

\* C15: a search body shorter than 36 bytes is rejected with 400; one of
\* exactly 36 bytes is accepted with empty text; a longer one is accepted
\* exactly when it holds the two qlen bytes and at least qlen bytes after
\* them, and is rejected with 400 otherwise.
C15_RequestParsing ==
    \A r \in Readers :
      (rd[r].kind = "search" /\ rd[r].pc \in {"loaded", "done"}) =>
        LET b == rd[r].body
            accepted == rd[r].pc = "loaded" /\ rd[r].status = 0
            rejected == rd[r].pc = "done" /\ rd[r].status = 400
        IN  /\ accepted \/ rejected
            /\ Len(b) < 36 => rejected
            /\ Len(b) = 36 => accepted /\ rd[r].qtext = << >>
            /\ Len(b) > 36 =>
                 (accepted <=> (Len(b) >= 38 /\ Len(b) - 38 >= b[37] + 256 * b[38]))

\* a body of 39 bytes, qlen = 1, accepted with its one byte of text
C15_Witness ==
    \E r \in Readers :
      /\ rd[r].kind = "search" /\ rd[r].pc = "loaded"
      /\ Len(rd[r].body) = 39 /\ rd[r].qtext = << 100 >>

\* a step of a /search handler: the request's arrival or its answer
SearchStep(r) == rd'[r] # rd[r] /\ rd'[r].kind = "search"

\* C16: a /search request, accepted or rejected, writes nothing shared: the
\* view pointer, the views, the segments, the ingest queue, the builder and
\* the WAL are the same after every step of its handler.
C16_SearchFrame ==
    [][ \A r \in Readers : SearchStep(r) =>
          UNCHANGED << published, viewheap, segheap, queue, builder, next_id,
                       wal, unsynced >> ]_vars

\* an answered search while a document waits in the queue
C16_Witness ==
    \E r \in Readers :
      /\ rd[r].kind = "search" /\ rd[r].status = 200 /\ rd[r].hits # << >>
      /\ queue # << >>

\* the ids inc was called with in this epoch, each once, in the order of
\* their first call, and the thread's accumulator
TouchedIds(r) == rd[r].calls
AccOf(r) == rd[r].acc

\* C17 as stated: inc(id) returns true exactly on the first touch of id in
\* the epoch; then the slot is marked, get_score(id) is 0.0 and id is the
\* last of the touched list; and iter_touched() yields every touched id
\* once in first-touch order.
C17_IncAsStated ==
    \A r \in Readers :
      (rd[r].acc # << >> /\ rd[r].pc = "idle") =>
        /\ rd[r].last.op = "inc" => (rd[r].last.ret <=> rd[r].last.first)
        /\ AccOf(r).touched = TouchedIds(r)

\* C17: while fewer than cap distinct ids have been touched in the epoch,
\* inc(id) returns true exactly on the first touch of id; it returns false
\* when id was already touched or when cap ids are touched.  After a true
\* inc the slot found for id carries the epoch, get_score(id) is 0.0 and
\* id is the last of the touched list.  iter_touched() yields the ids whose
\* inc returned true, once each, in first-touch order: the first cap of the
\* touched ids.
C17_IncContract ==
    \A r \in Readers :
      (rd[r].acc # << >> /\ rd[r].pc = "idle") =>
        LET a  == AccOf(r)
            id == rd[r].last.id
        IN  /\ rd[r].last.op = "inc" =>
                 /\ rd[r].last.ret <=> (rd[r].last.first /\ Len(TouchedIds(r)) <= a.cap)
                 /\ rd[r].last.ret =>
                      /\ ~get_score(a, id).spins /\ get_score(a, id).score = 0
                      /\ a.tag[KeySlot(a, id, id % a.cap, 0) + 1] = a.epoch
                      /\ a.touched[Len(a.touched)] = id
            /\ a.touched = Take(TouchedIds(r), a.cap)

\* an inc of a touched id returned false after a colliding id was touched
\* and scores were written
C17_Witness ==
    \E r \in Readers :
      /\ rd[r].acc # << >> /\ rd[r].last.op = "inc"
      /\ ~rd[r].last.ret /\ ~rd[r].last.first
      /\ rd[r].calls = << AccCap, 0 >>
      /\ get_score(rd[r].acc, 0).score = 2
      /\ rd[r].begins > 0

\* C18: saturation is harmless.  A candidate scored when cap ids are
\* already touched is dropped and the scoring loop goes on: the thread is
\* not left spinning and the touched list is what it was.
C18_SaturationHarmless ==
    \A r \in Readers :
      (rd[r].acc # << >> /\ rd[r].last.op = "score") =>
        /\ rd[r].pc # "spinning"
        /\ Len(AccOf(r).touched) <= AccOf(r).cap

RowsDeduped(s, pop, meta) ==
    /\ Len(s) = Len(pop) /\ Len(s) = Len(meta)
    /\ \A i, j \in 1..Len(meta) : meta[i].id = meta[j].id => i = j
    /\ \A i \in 1..Len(s) : pop[i] = Cardinality(s[i])

\* C20: an add whose external id is already in the builder overwrites that
\* row's signature, popcount and metadata and creates no row; any other add
\* appends one row.  So the builder, and every segment sealed from it, has
\* one row per distinct external id, holding the last content added for it,
\* with pop[row] = popcount(signature[row]).
C20_BuilderDedup ==
    [][ /\ (TakeStep /\ wev'.outcome = "ok") =>
             LET it   == Head(queue)
                 gid  == wev'.gid
                 rows == { i \in 1..Len(builder.meta) : builder.meta[i].id = gid }
                 sig  == SigOf(it.search)
                 m    == DocMeta(gid, it.title, it.author, it.genres, it.url, it.uri)
             IN  IF rows # {}
                 THEN \E i \in rows :
                        /\ builder'.signatures_aos = [builder.signatures_aos EXCEPT ![i] = sig]
                        /\ builder'.pop = [builder.pop EXCEPT ![i] = Cardinality(sig)]
                        /\ builder'.meta = [builder.meta EXCEPT ![i] = m]
                 ELSE /\ builder'.signatures_aos = Append(builder.signatures_aos, sig)
                      /\ builder'.pop = Append(builder.pop, Cardinality(sig))
                      /\ builder'.meta = Append(builder.meta, m)
        /\ RowsDeduped(builder'.signatures_aos, builder'.pop, builder'.meta)
        /\ \A h \in 1..Len(segheap') :
             RowsDeduped(segheap'[h].s, segheap'[h].pop, segheap'[h].meta)
        /\ Len(segheap') > Len(segheap) =>
             /\ segheap'[Len(segheap')].s = builder.signatures_aos
             /\ segheap'[Len(segheap')].meta = builder.meta
      ]_vars

\* two documents with the same id and different texts were added, and the
\* segment sealed after them has one row, with the second text's signature
C20_Witness ==
    /\ Len(oklog) = 2 /\ Len(segheap) = 1
    /\ oklog[1].rec.id = oklog[2].rec.id
    /\ oklog[1].rec.search # oklog[2].rec.search
    /\ SegLen(segheap[1]) = 1
    /\ segheap[1].s[1] = SigOf(oklog[2].rec.search)
    /\ segheap[1].meta[1].id = oklog[2].rec.id


\* the rows listed by a posting list
PostingRows(list) == { list[i] : i \in 1..Len(list) }

\* C21: in every sealed segment, whatever adds and overwrites built it, and
\* for every bit b of 0..255: row r is in bit_postings[b] exactly when bit b
\* of the signature stored for row r is set, and bit_freq[b] is the length
\* of bit_postings[b].
C21_BitPostings ==
    \A h \in 1..Len(segheap) : \A b \in 0..255 :
      /\ \A r \in 0..(SegLen(segheap[h]) - 1) :
            (r \in PostingRows(segheap[h].bit_postings[b])) <=> (b \in segheap[h].s[r + 1])
      /\ PostingRows(segheap[h].bit_postings[b]) \subseteq 0..(SegLen(segheap[h]) - 1)
      /\ segheap[h].bit_freq[b] = Len(segheap[h].bit_postings[b])

\* a segment sealed after two adds of one id: its single row carries the
\* second signature, and the postings list it under that signature's bits
C21_Witness ==
    \E h \in 1..Len(segheap) :
      /\ SegLen(segheap[h]) = 1 /\ Len(oklog) >= 2
      /\ oklog[1].rec.id = oklog[2].rec.id /\ ~oklog[1].auto /\ ~oklog[2].auto
      /\ oklog[1].rec.search # oklog[2].rec.search
      /\ segheap[h].s[1] = SigOf(oklog[2].rec.search)
      /\ \E b \in 0..255 : segheap[h].bit_postings[b] = << 0 >>


\* a posting list of a segment of len rows: strictly ascending rows below len
PostingOk(list, len) ==
    /\ \A i \in 1..Len(list) : 0 <= list[i] /\ list[i] < len
    /\ \A i \in 1..(Len(list) - 1) : list[i] < list[i + 1]

\* C22: in every sealed segment each bit_postings[b], pref1[c], pref3[i] and
\* full6 row list is strictly ascending without duplicates and holds rows
\* below the segment length, and the full6 pairs are in strictly ascending
\* key order.
C22_PostingsSorted ==
    \A h \in 1..Len(segheap) :
      LET seg == segheap[h]
      IN  /\ \A b \in 0..255 : PostingOk(seg.bit_postings[b], SegLen(seg))
          /\ \A c \in 0..255 : PostingOk(seg.pref1[c], SegLen(seg))
          /\ \A i \in DOMAIN seg.pref3 : PostingOk(seg.pref3[i], SegLen(seg))
          /\ \A i \in 1..Len(seg.full6) : PostingOk(seg.full6[i].rows, SegLen(seg))
          /\ \A i \in 1..(Len(seg.full6) - 1) :
                U64Less(seg.full6[i].key, seg.full6[i + 1].key)

\* a segment of two rows where the second row pushed "beta" twice (title and
\* author) after an overwrite, each list naming it once, and full6 holds
\* several keys
C22_Witness ==
    \E h \in 1..Len(segheap) :
      /\ SegLen(segheap[h]) = 2
      /\ segheap[h].meta[2].author = TextBeta /\ segheap[h].meta[2].title = TextAlphaBeta
      /\ segheap[h].meta[1].title = TextAlphaGamma
      /\ segheap[h].pref1[98] = << 1 >>
      /\ segheap[h].pref1[97] = << 0, 1 >>
      /\ Pref3At(segheap[h], Pref3Of(TextBeta)) = << 1 >>
      /\ Len(segheap[h].full6) = 3
      /\ lookup_full6(segheap[h].full6, HashOf(TextAlpha)) = Some(<< 0, 1 >>)


\* the rows of a view: segment (1-based) and row (0-based)
ViewRows(segs) == { << i, r >> : i \in 1..Len(segs), r \in 0..2 } \cap
                  UNION { { << i, r >> : r \in 0..(SegLen(segs[i]) - 1) } : i \in 1..Len(segs) }

\* the view holds exactly the two documents of the scenario: id 1 with
\* search "alpha beta" and id 2 with search "alpha gamma"
AlphaBetaGammaView(segs) ==
    /\ Cardinality(ViewRows(segs)) = 2
    /\ { << segs[x[1]].meta[x[2] + 1].id, segs[x[1]].s[x[2] + 1] >> : x \in ViewRows(segs) }
         = { << U32Of(1), SigOf(TextAlphaBeta) >>, << U32Of(2), SigOf(TextAlphaGamma) >> }

\* a reader holding the answer to the query text "beta" with its signature
\* and k = 2
BetaAnswered(r) ==
    /\ rd[r].pc = "done" /\ rd[r].kind = "search"
    /\ rd[r].qtext = TextBeta /\ rd[r].q = Query256(2, 0, SigOf(TextBeta))

\* the hit's score holds the exact-last bonus: the other terms of a score
\* (base at most 256.25, prefix at most 300, exact-any 200, fuzzy at most
\* 100) stay below W_EXACT_LAST
HasExactLast(h) == ~ScoreLT(h.score, << W_EXACT_LAST, 1 >>)

\* row is listed in full6 under the hash of the last query token, and that
\* token has at most 6 bytes
InFull6OfLast(seg, row, qtext) ==
    LET last == LastToken(QueryTokens(qtext))
    IN  /\ last.some /\ Len(last.v) <= 6
        /\ \E i \in 1..Len(seg.full6) :
              /\ seg.full6[i].key = hash_token64(last.v)
              /\ row \in PostingRows(seg.full6[i].rows)

\* every hit carries the exact-last bonus exactly when its row is in
\* full6[hash(last token)] for a last token of at most 6 bytes
ExactLastIff(r) ==
    \A i \in 1..Len(rd[r].hits) :
       HasExactLast(rd[r].hits[i])
         <=> InFull6OfLast(rd[r].segs0[rd[r].hits[i].seg + 1], rd[r].hits[i].row, rd[r].qtext)

TitledView(segs) ==
    \A x \in ViewRows(segs) :
       LET m == segs[x[1]].meta[x[2] + 1]
       IN  (m.id = U32Of(1) => m.title = TextAlphaBeta)
           /\ (m.id = U32Of(2) => m.title = TextAlphaGamma)

CandidateLists(seg, q, qtext) ==
    Only({ << c.seed >> \o c.steps \o (IF c.must # << >> THEN << c.cand >> ELSE << >>) :
           c \in { Candidates(seg, q, qtext) } })

\* C24: in every per-segment search, from the seeding to the scoring, the
\* candidate list has at most 512 rows and is strictly ascending, and every
\* intersection leaves a subset of the candidates it started from.
C24_BoundedCandidates ==
    \A r \in Readers :
      (rd[r].pc = "done" /\ rd[r].kind = "search") =>
        \A i \in 1..Len(rd[r].segs0) :
          \A lists \in { CandidateLists(rd[r].segs0[i], rd[r].q, rd[r].qtext) } :
            /\ \A j \in 1..Len(lists) :
                  /\ Len(lists[j]) <= INTERSECT_CAP
                  /\ PostingOk(lists[j], SegLen(rd[r].segs0[i]))
            /\ \A j \in 2..Len(lists) : PostingRows(lists[j]) \subseteq PostingRows(lists[j - 1])
            /\ Candidates(rd[r].segs0[i], rd[r].q, rd[r].qtext).cand = lists[Len(lists)]

\* a segment of more than 512 rows, all in the MUST-set: the seed is cut at
\* 512 rows, the pruning intersection halves it, and the search answers
C24_Witness ==
    \E r \in Readers :
      /\ rd[r].pc = "done" /\ rd[r].kind = "search" /\ Len(rd[r].segs0) = 1
      /\ SegLen(rd[r].segs0[1]) > INTERSECT_CAP
      /\ \E lists \in { CandidateLists(rd[r].segs0[1], rd[r].q, rd[r].qtext) } :
            /\ Len(lists) = 3
            /\ Len(Candidates(rd[r].segs0[1], rd[r].q, rd[r].qtext).must) > INTERSECT_CAP
            /\ Len(lists[1]) = INTERSECT_CAP
            /\ Len(lists[2]) = INTERSECT_CAP \div 2
            /\ lists[3] = lists[2]
      /\ Len(rd[r].hits) = 2


\* the number of additional bits the pruning is said to use
AdditionalBits(grams) == IF grams < 5 THEN 1 ELSE IF grams < 10 THEN 2 ELSE 3

\* the seed intersected with the posting lists of the next n rarest query
\* bits, n = AdditionalBits(grams) limited by the bits available
PrunedAsStated(seg, c) ==
    SelectSeq(c.seed, LAMBDA row :
       \A j \in 2..Min2(1 + AdditionalBits(Len(c.qbits)), Len(c.qbits)) :
          row \in PostingRows(seg.bit_postings[c.qbits[j]]))

\* C25: after seeding, the candidates are intersected with the posting lists
\* of the next rarest query bits: 1 additional bit if grams < 5, 2 if
\* grams < 10, 3 otherwise, grams = popcount(query_sig), limited by the
\* number of query bits available.
C25_PruneCount ==
    \A r \in Readers :
      (rd[r].pc = "done" /\ rd[r].kind = "search") =>
        \A i \in 1..Len(rd[r].segs0) :
          \A c \in { Candidates(rd[r].segs0[i], rd[r].q, rd[r].qtext) } :
             c.seed # << >> => c.pruned = PrunedAsStated(rd[r].segs0[i], c)


\* the MUST-set as the query steps define it: pref3[ix] for a last token of
\* 3 bytes or more, else pref1[first byte] for a last token of 1 or 2 bytes
MustSet(seg, qtext) ==
    LET tokens == QueryTokens(qtext)
        l      == IF tokens = << >> THEN << >> ELSE tokens[Len(tokens)]
    IN  IF Len(l) >= 3
        THEN LET ix == pref3_index(l[1], l[2], l[3])
             IN  IF ix.some /\ ix.v \in DOMAIN seg.pref3 THEN PostingRows(seg.pref3[ix.v]) ELSE {}
        ELSE IF Len(l) >= 1 THEN PostingRows(seg.pref1[l[1]])
        ELSE {}

\* C26: when the MUST-set of a segment is non-empty, every hit the segment
\* contributes, and every hit of the answer that lies in the segment, is a
\* row of the MUST-set; when no candidate is in the MUST-set the segment
\* contributes no hit.
C26_MustEnforced ==
    \A r \in Readers :
      (rd[r].pc = "done" /\ rd[r].kind = "search") =>
        \A i \in 1..Len(rd[r].segs0) :
          \A must \in { MustSet(rd[r].segs0[i], rd[r].qtext) } :
            must # {} =>
              \A out \in { search_into_v2(rd[r].segs0[i], i - 1, rd[r].q, rd[r].qtext).out } :
                /\ \A j \in 1..Len(out) : out[j].row \in must
                /\ \A j \in 1..Len(rd[r].hits) :
                      rd[r].hits[j].seg = i - 1 => rd[r].hits[j].row \in must
                /\ (PostingRows(Candidates(rd[r].segs0[i], rd[r].q, rd[r].qtext).pruned)
                      \cap must = {}) => out = << >>

\* "alpha b" on a segment of two rows: both overlap the query signature, the
\* MUST-set pref1['b'] holds row 1 only, and row 1 is the only hit
C26_Witness ==
    \E r \in Readers :
      /\ rd[r].pc = "done" /\ rd[r].kind = "search" /\ rd[r].qtext = TextAlphaB
      /\ Len(rd[r].segs0) = 1 /\ SegLen(rd[r].segs0[1]) = 2
      /\ MustSet(rd[r].segs0[1], rd[r].qtext) = {1}
      /\ overlap_popcnt(rd[r].segs0[1].s[1], rd[r].q.sig) > 0
      /\ Len(rd[r].hits) = 1 /\ rd[r].hits[1].row = 1


\* the touched rows of one per-segment search as hits: the candidates with
\* a positive overlap, with their scores
SegTouched(seg, seg_id, q, qtext) ==
    LET tokens == QueryTokens(qtext)
    IN  { [seg |-> seg_id, row |-> row,
           score |-> RowScoreText(seg, row, q, LastToken(tokens), OthersShort(tokens))] :
          row \in { x \in PostingRows(Candidates(seg, q, qtext).cand) :
                      overlap_popcnt(seg.s[x + 1], q.sig) > 0 } }

\* the n best hits of a set: higher score first, ties by higher row, then
\* higher seg
BestOf(hits, n) == { h \in hits : Cardinality({ g \in hits : HitCmpLT(h, g) }) < n }

\* C27: for k >= 1 the hits a segment contributes are exactly the
\* min(k, number of touched rows) touched rows with the highest scores, ties
\* broken by higher row.
C27_SegmentTopK ==
    \A r \in Readers :
      (rd[r].pc = "done" /\ rd[r].kind = "search" /\ rd[r].q.k >= 1) =>
        \A i \in 1..Len(rd[r].segs0) :
          \A touched \in { SegTouched(rd[r].segs0[i], i - 1, rd[r].q, rd[r].qtext) } :
            \A out \in { search_into_v2(rd[r].segs0[i], i - 1, rd[r].q, rd[r].qtext).out } :
               PostingRows(out) = BestOf(touched, rd[r].q.k)


\* C28: the merge of the per-segment results returns the whole pool when it
\* has at most k hits, and otherwise exactly k hits of the pool such that no
\* hit left out has a strictly higher score than a returned hit.
C28_GlobalMerge ==
    \A r \in Readers :
      (rd[r].pc = "done" /\ rd[r].kind = "search" /\ ~rd[r].panic) =>
        \A pool \in { PostingRows(PoolSegments(rd[r].segs0, 1, rd[r].q, rd[r].qtext).out) } :
          \A hits \in { PostingRows(rd[r].hits) } :
            IF Cardinality(pool) <= rd[r].q.k
            THEN hits = pool
            ELSE /\ Cardinality(hits) = rd[r].q.k
                 /\ hits \subseteq pool
                 /\ \A h \in hits : \A g \in pool \ hits : ~ScoreLT(h.score, g.score)


\* C29: the hit list of an answer is ordered by higher score first, equal
\* scores by higher row first, then by higher seg first, whether the pool
\* had at most k hits or more.
C29_ResultOrder ==
    \A r \in Readers :
      (rd[r].pc = "done" /\ rd[r].kind = "search") =>
        \A i, j \in 1..Len(rd[r].hits) :
          i < j =>
            /\ ~ScoreLT(rd[r].hits[i].score, rd[r].hits[j].score)
            /\ ScoreEQ(rd[r].hits[i].score, rd[r].hits[j].score) =>
                  \/ rd[r].hits[i].row > rd[r].hits[j].row
                  \/ /\ rd[r].hits[i].row = rd[r].hits[j].row
                     /\ rd[r].hits[i].seg > rd[r].hits[j].seg

\* a pool of three hits merged for k = 2: the two hits returned have equal
\* scores and the higher row comes first
C29_Witness ==
    \E r \in Readers :
      /\ rd[r].pc = "done" /\ rd[r].kind = "search" /\ rd[r].q.k = 2
      /\ Len(PoolSegments(rd[r].segs0, 1, rd[r].q, rd[r].qtext).out) = 3
      /\ Len(rd[r].hits) = 2
      /\ ScoreEQ(rd[r].hits[1].score, rd[r].hits[2].score)
      /\ rd[r].hits[1].row > rd[r].hits[2].row


\* C30: every hit a segment contributes, and every hit of the answer, has
\* an overlap of at least 1 with the query signature, also when its row is
\* in the MUST-set or in a full6 list; a query with an all-zero signature
\* gets no hit.
C30_NoZeroOverlap ==
    \A r \in Readers :
      (rd[r].pc = "done" /\ rd[r].kind = "search") =>
        /\ \A i \in 1..Len(rd[r].hits) :
              overlap_popcnt(rd[r].segs0[rd[r].hits[i].seg + 1].s[rd[r].hits[i].row + 1],
                             rd[r].q.sig) >= 1
        /\ \A i \in 1..Len(rd[r].segs0) :
              \A out \in { search_into_v2(rd[r].segs0[i], i - 1, rd[r].q, rd[r].qtext).out } :
                 \A j \in 1..Len(out) :
                    overlap_popcnt(rd[r].segs0[i].s[out[j].row + 1], rd[r].q.sig) >= 1
        /\ rd[r].q.sig = {} => rd[r].hits = << >>

\* "beta" answered on a segment of two rows that are both in the MUST-set
\* and in full6["beta"]: the row whose signature shares no bit with the
\* query is a candidate and is not returned, the other one is
C30_Witness ==
    \E r \in Readers :
      /\ BetaAnswered(r) /\ Len(rd[r].segs0) = 1 /\ SegLen(rd[r].segs0[1]) = 2
      /\ MustSet(rd[r].segs0[1], rd[r].qtext) = {0, 1}
      /\ InFull6OfLast(rd[r].segs0[1], 0, rd[r].qtext)
      /\ Candidates(rd[r].segs0[1], rd[r].q, rd[r].qtext).cand = << 0, 1 >>
      /\ overlap_popcnt(rd[r].segs0[1].s[1], rd[r].q.sig) = 0
      /\ Len(rd[r].hits) = 1 /\ rd[r].hits[1].row = 1


\* a query text in which no byte is alphanumeric (absent and empty included)
NoAlnumText(qtext) == \A i \in 1..Len(qtext) : ~is_alnum(qtext[i])

\* the query bits whose posting list in the segment is shortest
RarestBits(seg, q) ==
    { b \in q.sig : \A c \in q.sig : seg.bit_freq[b] <= seg.bit_freq[c] }

\* C31: when the query text is absent, empty or holds no alphanumeric byte,
\* every non-empty segment is searched with an empty MUST-set, its
\* candidates are seeded from the first 512 entries of the posting list of a
\* rarest query bit and never intersected with a prefix list, and the score
\* of every hit is its signature score: no prefix, exact-last or exact-any
\* bonus.
C31_ZeroTokenQueries ==
    \A r \in Readers :
      (rd[r].pc = "done" /\ rd[r].kind = "search" /\ NoAlnumText(rd[r].qtext)) =>
        /\ QueryTokens(rd[r].qtext) = << >>
        /\ \A i \in 1..Len(rd[r].segs0) :
             \A seg \in { rd[r].segs0[i] } :
               SegLen(seg) > 0 =>
                 \A c \in { Candidates(seg, rd[r].q, rd[r].qtext) } :
                   /\ c.must = << >>
                   /\ MustSet(seg, rd[r].qtext) = {}
                   /\ rd[r].q.sig # {} =>
                         \E b \in RarestBits(seg, rd[r].q) :
                            c.seed = Take(seg.bit_postings[b], INTERSECT_CAP)
                   /\ c.cand = c.pruned
                   /\ \A out \in { search_into_v2(seg, i - 1, rd[r].q, rd[r].qtext).out } :
                         \A j \in 1..Len(out) :
                            out[j].score = RowScore(seg, out[j].row, rd[r].q)
        /\ \A j \in 1..Len(rd[r].hits) :
              rd[r].hits[j].score =
                 RowScore(rd[r].segs0[rd[r].hits[j].seg + 1], rd[r].hits[j].row, rd[r].q)

\* "! ?" with the signature of "beta" on a segment whose rows have the
\* token "beta" in pref1, pref3 and full6: the rows are found through the
\* posting list of a rarest bit and scored without bonus
C31_Witness ==
    \E r \in Readers :
      /\ rd[r].pc = "done" /\ rd[r].kind = "search" /\ rd[r].qtext = TextMarks
      /\ Len(rd[r].segs0) = 1 /\ SegLen(rd[r].segs0[1]) = 2
      /\ MustSet(rd[r].segs0[1], TextBeta) = {0, 1}
      /\ InFull6OfLast(rd[r].segs0[1], 0, TextBeta)
      /\ Len(rd[r].hits) = 1
      /\ ScoreLT(rd[r].hits[1].score, << 1, 1 >>)

\* the signature of "alpha beta gamma" without text on a segment where the
\* lowest query bit is not a rarest one: the seed is the posting list of a
\* rarest bit
C31_WitnessRarest ==
    \E r \in Readers :
      /\ rd[r].pc = "done" /\ rd[r].kind = "search" /\ rd[r].qtext = << >>
      /\ Len(rd[r].segs0) = 1 /\ rd[r].q.sig = SigOf(TextAlphaBetaGamma)
      /\ 5 \notin RarestBits(rd[r].segs0[1], rd[r].q)
      /\ Len(rd[r].hits) >= 1


\* the n lowest rows of a set of rows
LowestRows(rows, n) == { x \in rows : Cardinality({ y \in rows : y < x }) < n }

\* C32: when the MUST-set of a segment is non-empty, the candidates are
\* seeded with exactly its 512 lowest rows (all of them when it has fewer),
\* and every hit the segment contributes, and every hit of the answer that
\* lies in the segment, is one of those rows.
C32_SeedTruncation ==
    \A r \in Readers :
      (rd[r].pc = "done" /\ rd[r].kind = "search") =>
        \A i \in 1..Len(rd[r].segs0) :
          \A must \in { MustSet(rd[r].segs0[i], rd[r].qtext) } :
            must # {} =>
              \A low \in { LowestRows(must, INTERSECT_CAP) } :
                /\ PostingRows(Candidates(rd[r].segs0[i], rd[r].q, rd[r].qtext).seed) = low
                /\ PostingRows(Candidates(rd[r].segs0[i], rd[r].q, rd[r].qtext).cand)
                      \subseteq low
                /\ \A out \in { search_into_v2(rd[r].segs0[i], i - 1, rd[r].q, rd[r].qtext).out } :
                      \A j \in 1..Len(out) : out[j].row \in low
                /\ \A j \in 1..Len(rd[r].hits) :
                      rd[r].hits[j].seg = i - 1 => rd[r].hits[j].row \in low

\* "alpha beta" on a segment of more than 512 rows, all in the MUST-set: the
\* last row has every query bit and the tokens "beta" and "alpha", scores
\* above every returned hit, and is not returned
C32_Witness ==
    \E r \in Readers :
      /\ rd[r].pc = "done" /\ rd[r].kind = "search" /\ rd[r].qtext = TextAlphaBeta
      /\ Len(rd[r].segs0) = 1 /\ SegLen(rd[r].segs0[1]) > INTERSECT_CAP
      /\ Len(rd[r].hits) = 2
      /\ \E seg \in { rd[r].segs0[1] } : \E row \in { SegLen(seg) - 1 } :
         \E tokens \in { QueryTokens(rd[r].qtext) } :
            /\ row \in MustSet(seg, rd[r].qtext)
            /\ rd[r].q.sig \subseteq seg.s[row + 1]
            /\ \A j \in 1..Len(rd[r].hits) :
                  /\ rd[r].hits[j].row < INTERSECT_CAP
                  /\ ScoreLT(rd[r].hits[j].score,
                             RowScoreText(seg, row, rd[r].q, LastToken(tokens),
                                          OthersShort(tokens)))


\* the hits the segments of an answered search pushed to the pool
PooledHits(r) == PostingRows(PoolSegments(rd[r].segs0, 1, rd[r].q, rd[r].qtext).out)

\* C33: for all hits a and b that meet in a heap or in the merge test, the
\* derived comparison (a < b, hence a > b and a <= b) gives the same answer
\* as Ord::cmp (score, then row, then seg).
C33_OrderingsAgree ==
    \A r \in Readers :
      (rd[r].pc = "done" /\ rd[r].kind = "search" /\ ~rd[r].panic) =>
        \A a, b \in PooledHits(r) : HitDerivedLT(a, b) <=> HitCmpLT(a, b)


\* the view a reader of SpecWide searched
WideViewOf(r) == WideView(rd[r].segments, rd[r].total0 - rd[r].segments + 1)

\* C34: every hit of an answer names, by hit.seg, a segment of the searched
\* view whose own search scored the hit's row with the hit's score, for
\* views of any number of segments; so the id the encoder resolves,
\* view.segments[hit.seg].meta[hit.row].id, is the id of the row that was
\* scored.
C34_SegIdentity ==
    \A r \in Readers :
      (rd[r].pc = "done" /\ rd[r].kind = "search" /\ ~rd[r].panic) =>
        \A j \in 1..Len(rd[r].hits) :
          \A h \in { rd[r].hits[j] } :
            /\ h.seg + 1 \in 1..rd[r].segments
            /\ \E o \in PostingRows(search_into_v2(WideViewOf(r)[h.seg + 1], h.seg,
                                                     rd[r].q, << >>).out) :
                  o.row = h.row /\ o.score = h.score


\* C35: every hit (seg, row) the search handler hands to encode_hits_binary
\* satisfies seg < number of segments of the view passed to the encoder and
\* row < length of that segment.
C35_HitsInBounds ==
    \A r \in Readers :
      (rd[r].pc = "done" /\ rd[r].kind = "search") =>
        \A j \in 1..Len(rd[r].hits) :
          /\ rd[r].hits[j].seg < rd[r].segments
          /\ rd[r].hits[j].row < SegLen(WideViewOf(r)[rd[r].hits[j].seg + 1])


\* C36: whenever the writer assigns an id to an item that came without one,
\* the id differs from the id of every record already in the log, whether
\* that record's id came from a caller or from the writer, in this run or
\* before a restart.
C36_FreshIds ==
    [][ (TakeStep /\ ~Head(queue).id.some) =>
          \A recs \in { ReadLog(wal, 0).recs } :
             \A i \in 1..Len(recs) : recs[i].id # wev'.gid ]_vars


\* the ids a row can carry in the live server: caller ids and counter values
LiveIds == { U32Of(n) : n \in 0..(MaxEnq - 1) }

\* the builder holds a row with id g and the signature of text t
InBuilder(g, t) ==
    \E i \in 1..Len(builder.meta) :
       builder.meta[i].id = g /\ builder.signatures_aos[i] = SigOf(t)

\* a segment of the published view holds a row with id g and the signature
\* of text t
InPublished(g, t) ==
    \E j \in 1..Len(viewheap[published]) :
       \E seg \in { segheap[viewheap[published][j]] } :
          \E i \in 1..SegLen(seg) : seg.meta[i].id = g /\ seg.s[i] = SigOf(t)

\* C37 as stated: every document added to the builder is eventually a row
\* of a segment of the published view.
C37_VisibleAsStated ==
    \A g \in LiveIds : \A t \in Texts : InBuilder(g, t) ~> InPublished(g, t)

\* C37: with a writer that keeps running, every id added to the builder is
\* eventually the id of a row of a segment of the published view, and every
\* document added to the builder is eventually such a row unless a later
\* document with the same id has replaced it in the builder before the seal;
\* no further document needs to arrive.
C37_EventualVisibility ==
    \A g \in LiveIds : \A t \in Texts :
       /\ InBuilder(g, t) ~> (\E u \in Texts : InPublished(g, u))
       /\ InBuilder(g, t) ~> (InPublished(g, t) \/ \E u \in Texts \ {t} : InBuilder(g, u))

\* one document was ingested and no other arrived: a flush check with fewer
\* than flush_docs documents and an expired timer has published its segment
C37_Witness ==
    /\ enq = 1 /\ queue = << >>
    /\ wev.kind = "check" /\ wev.timed_out /\ wev.since = 1 /\ wev.since < FlushDocs
    /\ BuilderLen(builder) = 0
    /\ Len(viewheap[published]) = 1
    /\ \E g \in LiveIds : \E t \in Texts : InPublished(g, t)

\* the seed filtered by the posting lists of the query bits the pruning loop
\* visits, the bits with an empty posting list left out
PrunedSkippingEmpty(seg, c) ==
    SelectSeq(c.seed, LAMBDA row :
       \A j \in 2..Min2(IF Len(c.qbits) < 5 THEN 1 ELSE IF Len(c.qbits) < 10 THEN 2 ELSE 3,
                        Len(c.qbits)) :
          \/ seg.bit_postings[c.qbits[j]] = << >>
          \/ row \in PostingRows(seg.bit_postings[c.qbits[j]]))

\* C38: with an empty MUST-set, a non-empty segment in which some set bit of
\* the query signature has an empty posting list contributes no hit (the
\* seed is the empty list of a rarest bit); in the pruning loop a query bit
\* with an empty posting list is skipped: the candidates after the loop are
\* the seed intersected with the non-empty lists only.
C38_ZeroFrequencyBits ==
    \A r \in Readers :
      (rd[r].pc = "done" /\ rd[r].kind = "search") =>
        \A i \in 1..Len(rd[r].segs0) :
          \A seg \in { rd[r].segs0[i] } :
            SegLen(seg) > 0 =>
              \A c \in { Candidates(seg, rd[r].q, rd[r].qtext) } :
                /\ (/\ MustSet(seg, rd[r].qtext) = {}
                    /\ \E b \in rd[r].q.sig : seg.bit_postings[b] = << >>)
                      => /\ c.seed = << >>
                         /\ search_into_v2(seg, i - 1, rd[r].q, rd[r].qtext).out = << >>
                         /\ \A j \in 1..Len(rd[r].hits) : rd[r].hits[j].seg # i - 1
                /\ c.pruned = PrunedSkippingEmpty(seg, c)

\* the signature of "alpha beta gamma" with the text "beta" on two
\* segments of one "alpha beta" row each. Segment 0 has no metadata: its
\* MUST-set is empty, the bits of "gamma" have no posting, and the row,
\* which overlaps the query, is no hit. Segment 1 has the title
\* "alpha beta": the seed is its MUST-set, the second rarest query bit has
\* no posting, and the row is the hit
C38_Witness ==
    \E r \in Readers :
      /\ rd[r].pc = "done" /\ rd[r].kind = "search" /\ rd[r].qtext = TextBeta
      /\ rd[r].q.sig = SigOf(TextAlphaBetaGamma)
      /\ Len(rd[r].segs0) = 2
      /\ MustSet(rd[r].segs0[1], rd[r].qtext) = {}
      /\ overlap_popcnt(rd[r].segs0[1].s[1], rd[r].q.sig) > 0
      /\ \E b \in rd[r].q.sig : rd[r].segs0[1].bit_postings[b] = << >>
      /\ \E c \in { Candidates(rd[r].segs0[2], rd[r].q, rd[r].qtext) } :
            /\ c.must # << >>
            /\ rd[r].segs0[2].bit_postings[c.qbits[2]] = << >>
            /\ c.pruned = c.seed
      /\ Len(rd[r].hits) = 1 /\ rd[r].hits[1].seg = 1

\* the ids for which inc returned true in the current epoch (iter_touched)
IncTrueIds(a) == { a.touched[j] : j \in 1..Len(a.touched) }

\* the slot the key probe of set_score, update_max and get_score stops at
\* is the one slot that carries the current epoch and holds id
ProbeFindsClaimed(a, id) ==
    \E i \in { KeySlot(a, id, id % a.cap, 0) } :
       /\ i # NoSlot
       /\ a.tag[i + 1] = a.epoch /\ a.keys[i + 1] = id
       /\ \A n \in 1..a.cap : (a.tag[n] = a.epoch /\ a.keys[n] = id) => n = i + 1

\* C39: once inc(id) has returned true in the current epoch, the key probe
\* for id stops at the slot that inc claimed, never at a slot that holds the
\* same key from an earlier epoch; and get_score(id) is the value last
\* written for id in this epoch: 0.0 after the inc, v after set_score(id, v),
\* the larger of the old value and v after update_max(id, v), and unchanged
\* by calls for other ids.
C39_NoStaleSlot ==
    [][ \A r \in Readers :
          (rd[r].acc # << >> /\ rd'[r] # rd[r] /\ rd'[r].last.op # "begin") =>
            \E a \in { rd[r].acc } : \E b \in { rd'[r].acc } : \E c \in { rd'[r].last } :
              /\ \A id \in IncTrueIds(b) : ProbeFindsClaimed(b, id)
              /\ \A id \in IncTrueIds(a) \ {c.id} :
                    get_score(b, id).score = get_score(a, id).score
              /\ (c.op \in {"inc", "score"} /\ c.ret) =>
                    /\ c.id \in IncTrueIds(b) \ IncTrueIds(a)
                    /\ get_score(b, c.id).score = (IF c.op = "inc" THEN 0 ELSE c.score)
              /\ (c.op = "set_score" /\ c.id \in IncTrueIds(a)) =>
                    get_score(b, c.id).score = c.score
              /\ (c.op \in {"update_max", "score"} /\ c.id \in IncTrueIds(a)) =>
                    get_score(b, c.id).score = Max2(get_score(a, c.id).score, c.score) ]_vars

\* id AccCap was touched after id 0 in an earlier epoch and took the second
\* slot with score 2; in this epoch inc claimed its home slot, set_score
\* wrote 1 there, and the second slot still holds the key with the old tag
\* and the old score
C39_Witness ==
    \E r \in Readers :
      /\ rd[r].acc # << >> /\ rd[r].pc = "idle"
      /\ rd[r].last.op = "set_score" /\ rd[r].last.id = AccCap /\ rd[r].last.score = 1
      /\ AccCap \in IncTrueIds(rd[r].acc)
      /\ \E a \in { rd[r].acc } :
            /\ a.keys[1] = AccCap /\ a.tag[1] = a.epoch /\ a.vals[1] = 1
            /\ a.keys[2] = AccCap /\ a.tag[2] # a.epoch /\ a.vals[2] = 2
            /\ get_score(a, AccCap).score = 1

\* C40: the pack file holds the records in ingestion order.  Every item the
\* writer appends is the head of the queue (FIFO), its record goes to the
\* end of the file and the item to the builder in the same step, so the
\* records the reader yields from the file are, in order, the items dequeued
\* and appended; and boot replay adds the records to its builder in that
\* order.
C40_IngestionOrder ==
    [][ /\ (TakeStep /\ wev'.outcome = "ok") =>
              \E it \in { Head(queue) } :
                /\ oklog' = Append(oklog,
                               [rec |-> PackRec(wev'.gid, it.search, it.title, it.author,
                                                it.genres, it.url, it.uri),
                                auto |-> ~it.id.some])
                /\ builder' = BuilderAfterAppend(builder, it, wev'.gid, TRUE)
                /\ ReadLog(wal', 0).recs = OkRecs'
        /\ (proc = "down" /\ proc' = "serving") =>
              segheap' = ReplaySegments(OkRecs, ReplaySegDocs) ]_vars

=============================================================================
